---- MODULE Spec2Model ----
(***************************************************************************)
(* The virtual broadcast scheduler of nekatz-tv: PlaylistManager           *)
(* (apps/backend/src/video-scanner.ts, second half) as a state machine.    *)
(* Times are milliseconds on the Date.now() clock, measured from an origin *)
(* chosen so that every instant of a run fits TLC's integers; episode      *)
(* durations are seconds, as the scanner produces them.                    *)
(***************************************************************************)
EXTENDS Integers, Sequences, FiniteSets, TLC

(* ------------------------------------------------------------------ *)
(* Program constants                                                   *)
(* ------------------------------------------------------------------ *)
INITIAL_LOOKAHEAD_HOURS == 2
EXTEND_LOOKAHEAD_HOURS == 2
EXTEND_THRESHOLD_MINUTES == 30
HISTORY_KEEP_MINUTES == 30
SAVE_INTERVAL_MS == 10000
\* 10 * 1024 * 1024
INITIAL_CHUNK == 10485760

(* ------------------------------------------------------------------ *)
(* Bounds of the model                                                 *)
(* ------------------------------------------------------------------ *)
\* The process is started at this instant of the model's clock.
BootTime == 36000000
\* No action moves the clock past BootTime + MaxSpan.
MaxSpan == 16200000
\* How many rescans of one run return a catalog other than the one in use.
MaxReloads == 1
\* Iterations one window-building loop may take before it is judged to spin.
LoopFuel == 300
\* Number of most recent getNextEpisode selections kept for observation.
MaxPicks == 6
\* Number of leading items of the initial window kept in boot.window
MaxShown == 5

\* Requests to the HTTP server in one run
MaxRequests == 1
\* Answered fetches of /api/current by the client in one run
MaxSyncs == 3

\* How long after a firing of the save timer the requests of that period arrive.
ClockSteps == {9500}
\* Lengths of runs of consecutive save-timer firings with no request between.
TimerRuns == {360}
\* Difference between two successive Date.now() reads of one call.
ClockSkews == {0, 1}

(* ------------------------------------------------------------------ *)
(* Values                                                              *)
(* ------------------------------------------------------------------ *)
\* JavaScript null / undefined for an Episode, a PlaylistItem or a saved episode.
Null == [null |-> TRUE]

Ep(show, s, e, p, d) ==
    [showName |-> show, season |-> s, episode |-> e, part |-> p, duration |-> d,
     path |-> <<show, s, e, p>>]

\* Catalogs scanShows can return: shows in directory order, episodes sorted.
CatEmpty == <<>>
CatXY == << [name |-> "X", episodes |-> << Ep("X", 1, 1, "", 1800), Ep("X", 1, 2, "", 2700) >>],
            [name |-> "Y", episodes |-> << Ep("Y", 1, 1, "", 3600) >>] >>
CatYZ == << [name |-> "Y", episodes |-> << Ep("Y", 1, 1, "", 3600) >>],
            [name |-> "Z", episodes |-> << Ep("Z", 1, 1, "a", 0), Ep("Z", 1, 1, "b", 600),
                                           Ep("Z", 2, 1, "", 900) >>] >>
CatY == << [name |-> "Y", episodes |-> << Ep("Y", 1, 1, "", 3600) >>] >>
\* The scenario catalog: A (30 s, 45 s) and B (60 s).
CatAB == << [name |-> "A", episodes |-> << Ep("A", 1, 1, "", 30), Ep("A", 1, 2, "", 45) >>],
            [name |-> "B", episodes |-> << Ep("B", 1, 1, "", 60) >>] >>
\* A scan may also list a folder whose files were all skipped: it is filtered out.
CatXe == << [name |-> "X", episodes |-> << Ep("X", 1, 1, "", 1800), Ep("X", 1, 2, "", 2700) >>],
            [name |-> "E", episodes |-> << >>] >>

\* A show whose only file is shorter than a second: Math.floor(duration) is 0
CatW == << [name |-> "W", episodes |-> << Ep("W", 1, 1, "", 0) >>] >>

Catalogs == {CatEmpty, CatXY, CatYZ, CatY, CatXe}

Saved(show, s, e, p, t) ==
    [currentEpisode |-> [showName |-> show, season |-> s, episode |-> e, part |-> p,
                         startTime |-> t]]

\* Contents of the state file: absent, unparsable, or a SavedState.
FileAbsent == [absent |-> TRUE]
FileCorrupt == [corrupt |-> TRUE]
FileNullEpisode == [currentEpisode |-> Null]
\* JSON that parses to a value without a currentEpisode
FileOtherJson == [other |-> TRUE]

\* How long before the start of the process the persisted episode began.
Outages == {1500, 90000, 10800000, 17400000, 18000000, 21600000}

StateFiles ==
    {FileAbsent, FileCorrupt, FileNullEpisode, FileOtherJson}
    \cup {Saved("X", 1, 2, "", BootTime - o) : o \in Outages}
    \cup {Saved("Y", 1, 1, "", BootTime - o) : o \in {90000}}
    \cup {Saved("Q", 1, 1, "", BootTime - o) : o \in {90000}}

\* The catalog cat and the state file the process starts with.
Boots(cat, file) ==
    \/ cat \in {CatXY, CatYZ, CatEmpty} /\ file = FileAbsent
    \/ cat = CatXY /\ file = Saved("X", 1, 2, "", BootTime - 90000)
    \/ cat = CatXY /\ file = Saved("X", 1, 2, "", BootTime - 18000000)

\* Starts from a state file
RestoreBoots(cat, file) ==
    \/ cat \in {CatXY, CatXe, CatYZ} /\ file \in StateFiles

Min(a, b) == IF a <= b THEN a ELSE b
Max(a, b) == IF a >= b THEN a ELSE b

(* ------------------------------------------------------------------ *)
(* PlaylistManager: fields threaded through the methods as a record m  *)
(*   shows, playlist, showIndices, currentShowIndex (0-based), picks   *)
(* picks is an observation only: the last selections of getNextEpisode *)
(* ------------------------------------------------------------------ *)

\* this.showIndices.get(name) || 0
IdxGet(idx, name) == IF name \in DOMAIN idx THEN idx[name] ELSE 0

\* this.showIndices.set(name, v)
IdxSet(idx, name, v) ==
    [n \in (DOMAIN idx) \cup {name} |-> IF n = name THEN v ELSE idx[n]]

\* Variant that keeps every show of the scan
FilterShowsAll(ss) == ss

\* shows.filter(show => show.episodes.length > 0)
RECURSIVE FilterShows(_)
FilterShows(ss) ==
    IF ss = <<>> THEN <<>>
    ELSE IF Len(Head(ss).episodes) > 0 THEN <<Head(ss)>> \o FilterShows(Tail(ss))
    ELSE FilterShows(Tail(ss))

Remember(picks, p) ==
    LET all == Append(picks, p)
    IN IF Len(all) > MaxPicks THEN Tail(all) ELSE all

\* Variant of the selection that leaves the cursor of the show where it was
SelectAtSameEpisode(m, show, idx1) ==
    [m |-> [m EXCEPT !.showIndices = idx1,
                     !.currentShowIndex = (m.currentShowIndex + 1) % Len(m.shows),
                     !.picks = Remember(@, [show |-> m.currentShowIndex,
                                            index |-> IdxGet(idx1, show.name)])],
     episode |-> IF IdxGet(idx1, show.name) < Len(show.episodes)
                 THEN show.episodes[IdxGet(idx1, show.name) + 1]
                 ELSE Null,
     threw |-> FALSE]

\* Variant of the selection that stays on the show it selected from
SelectAtSameShow(m, show, idx1) ==
    [m |-> [m EXCEPT !.showIndices = IdxSet(idx1, show.name, IdxGet(idx1, show.name) + 1),
                     !.picks = Remember(@, [show |-> m.currentShowIndex,
                                            index |-> IdxGet(idx1, show.name)])],
     episode |-> IF IdxGet(idx1, show.name) < Len(show.episodes)
                 THEN show.episodes[IdxGet(idx1, show.name) + 1]
                 ELSE Null,
     threw |-> FALSE]

\* getNextEpisode() once the cursor of `show` is settled in idx1: select, advance
SelectAt(m, show, idx1) ==
    [m |-> [m EXCEPT !.showIndices = IdxSet(idx1, show.name, IdxGet(idx1, show.name) + 1),
                     !.currentShowIndex = (m.currentShowIndex + 1) % Len(m.shows),
                     !.picks = Remember(@, [show |-> m.currentShowIndex,
                                            index |-> IdxGet(idx1, show.name)])],
     episode |-> IF IdxGet(idx1, show.name) < Len(show.episodes)
                 THEN show.episodes[IdxGet(idx1, show.name) + 1]
                 ELSE Null,
     threw |-> FALSE]

\* Variant of the selection whose cursor does not wrap at the end of the list
SelectFromNoWrap(m, show) == SelectAt(m, show, m.showIndices)

\* getNextEpisode() for the show in turn: wrap its cursor at the end of the list
SelectFrom(m, show) ==
    SelectAt(m, show,
             IF IdxGet(m.showIndices, show.name) >= Len(show.episodes)
             THEN IdxSet(m.showIndices, show.name, 0)
             ELSE m.showIndices)

\* getNextEpisode(): [m, episode, threw]
GetNextEpisode(m) ==
    IF Len(m.shows) = 0 THEN [m |-> m, episode |-> Null, threw |-> FALSE]
    ELSE IF m.currentShowIndex >= Len(m.shows)
    THEN \* shows[currentShowIndex] is undefined: show.name throws a TypeError
         [m |-> m, episode |-> Null, threw |-> TRUE]
    ELSE SelectFrom(m, m.shows[m.currentShowIndex + 1])

\* The PlaylistItem of an episode that starts at currentTime
NewItem(episode, currentTime) ==
    [episode |-> episode,
     startTime |-> currentTime,
     endTime |-> currentTime + (episode.duration * 1000)]

\* The while loop shared by generateInitialPlaylist and extendPlaylist, carried as
\* b = [m, currentTime, threw, done]; done once the loop has been left

\* this.playlist.push(item); currentTime = item.endTime
BuildPush(m, item) ==
    [m |-> [m EXCEPT !.playlist = Append(@, item)], currentTime |-> item.endTime,
     threw |-> FALSE, done |-> FALSE]

\* The loop body after getNextEpisode() returned r: a throw, the break, or the push
BuildStep(r, currentTime) ==
    IF r.threw THEN [m |-> r.m, currentTime |-> currentTime, threw |-> TRUE, done |-> TRUE]
    ELSE IF r.episode = Null
         THEN [m |-> r.m, currentTime |-> currentTime, threw |-> FALSE, done |-> TRUE]
         ELSE BuildPush(r.m, NewItem(r.episode, currentTime))

\* One pass: the test currentTime < endTime, then the body
BuildBody(b, endTime) ==
    IF ~(b.currentTime < endTime) THEN [b EXCEPT !.done = TRUE]
    ELSE BuildStep(GetNextEpisode(b.m), b.currentTime)

\* At most n passes of the loop
RECURSIVE BuildPasses(_, _, _)
RECURSIVE BuildRest(_, _, _)

BuildPasses(b, endTime, n) ==
    IF n = 0 THEN b
    ELSE IF n = 1 THEN BuildBody(b, endTime)
    ELSE BuildRest(BuildPasses(b, endTime, n \div 2), endTime, n - (n \div 2))

BuildRest(b, endTime, n) == IF b.done THEN b ELSE BuildPasses(b, endTime, n)

\* What the loop leaves: [m, threw, hung], hung when it is still running after
\* LoopFuel items
BuildResult(b) == [m |-> b.m, threw |-> b.threw, hung |-> ~b.done]

BuildLoop(m, currentTime, endTime) ==
    BuildResult(BuildPasses([m |-> m, currentTime |-> currentTime,
                             threw |-> FALSE, done |-> FALSE], endTime, LoopFuel + 1))

\* generateInitialPlaylist()
GenerateInitialPlaylist(m, playlistStart) ==
    BuildLoop(m, playlistStart,
              playlistStart + (INITIAL_LOOKAHEAD_HOURS * 60 * 60 * 1000))

\* Variant of the clean-up that keeps the items that start after the cutoff
FilterItemsByStart(pl, cutoffTime) ==
    LET Kept(item) == item.startTime > cutoffTime
    IN SelectSeq(pl, Kept)

\* playlist.filter(item => item.endTime > cutoffTime)
FilterItems(pl, cutoffTime) ==
    LET Kept(item) == item.endTime > cutoffTime
    IN SelectSeq(pl, Kept)

\* Variant of the extension that lays the new items out from the clock
ExtendFromNow(m, t) == t

\* extendPlaylist(): where the new items start
ExtendFrom(m, t) ==
    IF m.playlist # <<>> THEN m.playlist[Len(m.playlist)].endTime ELSE t

\* Variant of the extension that never cleans up
TrimSkipped(b, cutoffTime) == b

\* extendPlaylist(): clean up old items, which a throw in the loop skips
Trim(b, cutoffTime) ==
    IF b.threw \/ b.hung THEN b
    ELSE [b EXCEPT !.m.playlist = FilterItems(@, cutoffTime)]

\* Variant of the extension that looks three hours ahead
ExtendPlaylistLong(m, t) ==
    Trim(BuildLoop(m, ExtendFrom(m, t), ExtendFrom(m, t) + (3 * 60 * 60 * 1000)),
         t - (HISTORY_KEEP_MINUTES * 60 * 1000))

\* extendPlaylist(), whose Date.now() reads return t: [m, threw, hung]
ExtendPlaylist(m, t) ==
    Trim(BuildLoop(m, ExtendFrom(m, t),
                   ExtendFrom(m, t) + (EXTEND_LOOKAHEAD_HOURS * 60 * 60 * 1000)),
         t - (HISTORY_KEEP_MINUTES * 60 * 1000))

\* playlist.find(item => item.startTime <= now && item.endTime > now)
FirstOf(pl, hits) ==
    IF hits = {} THEN Null ELSE pl[CHOOSE i \in hits : \A j \in hits : i <= j]

Find(pl, t) ==
    FirstOf(pl, {i \in 1..Len(pl) : pl[i].startTime <= t /\ pl[i].endTime > t})

\* getCurrentItem() when nothing was on air: try one more time after extending (e)
FindAgain(e, t) ==
    [m |-> e.m,
     item |-> IF e.threw \/ e.hung THEN Null ELSE Find(e.m.playlist, t),
     extended |-> TRUE, threw |-> e.threw, hung |-> e.hung]

\* getCurrentItem() when the window was close to its end and has been extended (e)
Extended(e, currentItem) ==
    [m |-> e.m, item |-> IF e.threw \/ e.hung THEN Null ELSE currentItem,
     extended |-> TRUE, threw |-> e.threw, hung |-> e.hung]

\* Variant of getCurrentItem() that only looks the item up
GetCurrentItemFindOnly(m, t, t2) ==
    [m |-> m, item |-> Find(m.playlist, t),
     extended |-> FALSE, threw |-> FALSE, hung |-> FALSE]

\* getCurrentItem(), reading the clock as t and, inside extendPlaylist, as t2:
\* [m, item, extended, threw, hung]
GetCurrentItem(m, t, t2) ==
    IF Find(m.playlist, t) = Null
    THEN FindAgain(ExtendPlaylist(m, t2), t)
    ELSE IF m.playlist[Len(m.playlist)].endTime - t < EXTEND_THRESHOLD_MINUTES * 60 * 1000
         THEN Extended(ExtendPlaylist(m, t2), Find(m.playlist, t))
         ELSE [m |-> m, item |-> Find(m.playlist, t),
               extended |-> FALSE, threw |-> FALSE, hung |-> FALSE]

\* Variant of the conversion that rounds to the nearest second
RoundSeconds(elapsed) == (elapsed + 500) \div 1000

\* Math.floor(elapsed / 1000)
FloorSeconds(elapsed) == elapsed \div 1000

\* getPosition() after getCurrentItem() returned g, its own Date.now() read being t3
PositionOf(g, t3) ==
    [m |-> g.m, item |-> g.item, extended |-> g.extended, threw |-> g.threw,
     hung |-> g.hung,
     position |-> IF g.item = Null THEN 0 ELSE FloorSeconds(t3 - g.item.startTime)]

\* getPosition(): the record of getCurrentItem plus position
GetPosition(m, t, t2, t3) == PositionOf(GetCurrentItem(m, t, t2), t3)

\* The SavedState saveState() derives from the current item
StateOf(item) ==
    IF item = Null THEN [currentEpisode |-> Null]
    ELSE [currentEpisode |-> [showName |-> item.episode.showName,
                              season |-> item.episode.season,
                              episode |-> item.episode.episode,
                              part |-> item.episode.part,
                              startTime |-> item.startTime]]

\* Variant of saveState() that writes only while an item is on air
WrittenOnAir(g, file) ==
    [m |-> g.m, item |-> g.item, extended |-> g.extended, threw |-> g.threw,
     hung |-> g.hung,
     file |-> IF g.threw \/ g.hung \/ g.item = Null THEN file ELSE StateOf(g.item)]

\* saveState() after getCurrentItem() returned g: a throw leaves the file as it was
Written(g, file) ==
    [m |-> g.m, item |-> g.item, extended |-> g.extended, threw |-> g.threw,
     hung |-> g.hung,
     file |-> IF g.threw \/ g.hung THEN file ELSE StateOf(g.item)]

\* saveState(): the record of getCurrentItem plus the file contents
SaveState(m, file, t, t2) == Written(GetCurrentItem(m, t, t2), file)

\* Variant that falls back to an older copy of the state when the file does not parse
RestoreStateBackup(file) ==
    IF file = FileAbsent THEN Null
    ELSE IF file = FileCorrupt THEN Saved("X", 1, 2, "", BootTime - 90000)
    ELSE IF file = FileOtherJson THEN FileNullEpisode
    ELSE file

\* restoreState(): the parsed SavedState, or null when the file is absent, cannot be
\* read or does not parse; a parsed value without currentEpisode has none to restore
RestoreState(file) ==
    IF file = FileAbsent \/ file = FileCorrupt THEN Null
    ELSE IF file = FileOtherJson THEN FileNullEpisode
    ELSE file

\* initializeIndices()
RECURSIVE InitializeIndices(_, _)
InitializeIndices(idx, ss) ==
    IF ss = <<>> THEN idx
    ELSE InitializeIndices(
           IF Head(ss).name \in DOMAIN idx THEN idx ELSE IdxSet(idx, Head(ss).name, 0),
           Tail(ss))

\* episodes.findIndex(ep => same season, episode, part, showName): 0-based, -1 if none
RECURSIVE FindIndexFrom(_, _, _)
FindIndexFrom(eps, saved, i) ==
    IF i >= Len(eps) THEN -1
    ELSE IF /\ eps[i + 1].season = saved.season
            /\ eps[i + 1].episode = saved.episode
            /\ eps[i + 1].part = saved.part
            /\ eps[i + 1].showName = saved.showName
         THEN i
         ELSE FindIndexFrom(eps, saved, i + 1)

FindIndex(eps, saved) == FindIndexFrom(eps, saved, 0)

\* Variant of the restore that resumes with the episode after the saved one
FoundNext(m, showIdx, episodeIdx) ==
    [m |-> [m EXCEPT !.currentShowIndex = showIdx,
                     !.showIndices =
                         InitializeIndices(IdxSet(@, m.shows[showIdx + 1].name,
                                                  episodeIdx + 1),
                                           m.shows)],
     hit |-> TRUE]

\* restoreFromEpisode(): the episode was found at episodeIdx of the show at showIdx
Found(m, showIdx, episodeIdx) ==
    [m |-> [m EXCEPT !.currentShowIndex = showIdx,
                     !.showIndices =
                         InitializeIndices(IdxSet(@, m.shows[showIdx + 1].name, episodeIdx),
                                           m.shows)],
     hit |-> TRUE]

\* Variant of the fallback that leaves the cursors unset
NotFoundKeep(m) == [m |-> m, hit |-> FALSE]

\* restoreFromEpisode(): episode not found, start fresh
NotFound(m) ==
    [m |-> [m EXCEPT !.showIndices = InitializeIndices(@, m.shows)], hit |-> FALSE]

\* restoreFromEpisode(savedEpisode): the for loop from showIdx on; [m, hit]
RECURSIVE RestoreFrom(_, _, _)
RestoreFrom(m, saved, showIdx) ==
    IF showIdx >= Len(m.shows) THEN NotFound(m)
    ELSE IF FindIndex(m.shows[showIdx + 1].episodes, saved) # -1
         THEN Found(m, showIdx, FindIndex(m.shows[showIdx + 1].episodes, saved))
         ELSE RestoreFrom(m, saved, showIdx + 1)

RestoreFromEpisode(m, saved) == RestoreFrom(m, saved, 0)

\* The constructor's choice between restoring and starting fresh: [m, hit]
Restore(m, saved) ==
    IF saved # Null THEN RestoreFromEpisode(m, saved)
    ELSE [m |-> [m EXCEPT !.showIndices = InitializeIndices(@, m.shows)], hit |-> FALSE]

(* ------------------------------------------------------------------ *)
(* State                                                               *)
(* ------------------------------------------------------------------ *)
VARIABLES
    now,                \* the Date.now() clock
    phase,              \* "boot" | "running" | "crashed" | "hung"
    disk,               \* the catalog scanShows returns at this moment
    stateFile,          \* contents of cache/playlist-state.json
    shows,              \* PlaylistManager.shows
    playlist,           \* PlaylistManager.playlist
    showIndices,        \* PlaylistManager.showIndices
    currentShowIndex,   \* PlaylistManager.currentShowIndex
    playlistStartTime,  \* PlaylistManager.playlistStartTime
    saveInterval,       \* the instant the save timer is due, NoTimer if not armed
    picks,              \* observation: the last selections of getNextEpisode
    boot,               \* observation: what the constructor found and set up
    reply,              \* observation: the last operation and what it returned
    used,               \* how much of each bound of the model the run has used
    http,               \* the last request to the HTTP server and its response so far
    rescanInterval,     \* the rescan timer is armed
    scanning,           \* what the rescans in flight will resolve to, oldest first
    player              \* the browser client: the script's variables and the video element

vars == <<now, phase, disk, stateFile, shows, playlist, showIndices, currentShowIndex,
          playlistStartTime, saveInterval, picks, boot, reply, used, http,
          rescanInterval, scanning, player>>

NoTimer == -1

\* App.vue before onMounted: nothing loaded, no path remembered
NoPath == <<>>

NoPlayer == [currentEpisodePath |-> NoPath, isLoadingNewEpisode |-> FALSE,
             loadingTimeout |-> NoTimer, src |-> Null, fetching |-> FALSE,
             playing |-> Null, ended |-> FALSE, syncs |-> 0]

M == [shows |-> shows, playlist |-> playlist, showIndices |-> showIndices,
      currentShowIndex |-> currentShowIndex, picks |-> picks]

EmptyIdx == [n \in {} |-> 0]

\* reply.at, extAt, posAt: the clock as read by getCurrentItem, extendPlaylist and
\* getPosition; reply.anchor: where the window ended when the operation began
NoReply == [op |-> "none", at |-> 0, extAt |-> 0, posAt |-> 0, anchor |-> 0,
            item |-> Null, position |-> 0, extended |-> FALSE, threw |-> FALSE]

NoBoot == [mode |-> "none", file |-> FileAbsent, saved |-> Null, at |-> 0, shows |-> <<>>,
           currentShowIndex |-> 0, showIndices |-> EmptyIdx, window |-> <<>>]

\* used.budget: how many catalog replacements the run may make
NoneUsed == [reloads |-> 0, budget |-> MaxReloads, tick |-> FALSE, skew |-> FALSE,
             requests |-> 0]

\* http.route, start, range, probe, file: the request and what it finds on disk;
\* http.status .. contentLength: the response head; http.body: what feeds the response
\* body; http.proc: the state of that source; http.logged: an error went to the log only
NoHttp == [route |-> "none", constructed |-> FALSE, item |-> Null, position |-> 0,
           timestamp |-> 0,
           start |-> 0, range |-> Null, probe |-> "none", file |-> Null,
           status |-> 0, headersSent |-> FALSE, mode |-> "none", seek |-> Null,
           acceptRanges |-> "unset", contentRange |-> Null, contentLength |-> Null,
           body |-> "none", proc |-> "none", logged |-> FALSE]

Init ==
    /\ now = BootTime
    /\ phase = "boot"
    /\ Boots(disk, stateFile)
    /\ shows = <<>>
    /\ playlist = <<>>
    /\ showIndices = EmptyIdx
    /\ currentShowIndex = 0
    /\ playlistStartTime = 0
    /\ saveInterval = NoTimer
    /\ picks = <<>>
    /\ boot = NoBoot
    /\ reply = NoReply
    /\ used = NoneUsed
    /\ http = NoHttp
    /\ player = NoPlayer
    /\ rescanInterval = FALSE
    /\ scanning = <<>>

\* The manager's fields after a call that returned record r
SetManager(r) ==
    /\ shows' = r.m.shows
    /\ playlist' = r.m.playlist
    /\ showIndices' = r.m.showIndices
    /\ currentShowIndex' = r.m.currentShowIndex
    /\ picks' = r.m.picks


(* ------------------------------------------------------------------ *)
(* Operations                                                          *)
(* ------------------------------------------------------------------ *)

\* A clock read later in the same call may return a later value
\* (once between two firings of the save timer)
Skew(d) == d \in ClockSkews /\ (d > 0 => ~used.skew)

UseSkew(d) == [used EXCEPT !.skew = @ \/ d > 0]

\* The constructor after restoring (r), generating the window (g) and saving (done)
Constructed(saved, r, start, g, done) ==
    /\ SetManager(done)
    /\ playlistStartTime' = start
    /\ stateFile' = done.file
    /\ phase' = IF done.hung THEN "hung" ELSE IF done.threw THEN "crashed" ELSE "running"
    /\ saveInterval' = IF done.hung \/ done.threw THEN NoTimer ELSE now + SAVE_INTERVAL_MS
    /\ rescanInterval' = ~(done.hung \/ done.threw)
    /\ boot' = [mode |-> IF saved = Null THEN "fresh" ELSE IF r.hit THEN "hit" ELSE "miss",
                file |-> stateFile, saved |-> saved, at |-> now, shows |-> r.m.shows,
                currentShowIndex |-> r.m.currentShowIndex,
                showIndices |-> r.m.showIndices,
                window |-> SubSeq(g.m.playlist, 1, Min(MaxShown, Len(g.m.playlist)))]
    /\ reply' = [op |-> "construct", at |-> now, extAt |-> now, posAt |-> now,
                 anchor |-> ExtendFrom(g.m, now), item |-> done.item, position |-> 0,
                 extended |-> done.extended, threw |-> done.threw]

\* this.generateInitialPlaylist(); this.saveState()
ConstructWindow(saved, r, start, g) ==
    Constructed(saved, r, start, g,
                IF g.threw \/ g.hung
                THEN [m |-> g.m, item |-> Null, extended |-> FALSE, threw |-> g.threw,
                      hung |-> g.hung, file |-> stateFile]
                ELSE SaveState(g.m, stateFile, now, now))

ConstructFrom(saved, r, start) ==
    ConstructWindow(saved, r, start, GenerateInitialPlaylist(r.m, start))

\* Variant of the constructor that lays the window out from the clock
ConstructWithNow(saved) ==
    ConstructFrom(saved,
                  Restore([shows |-> FilterShows(disk), playlist |-> <<>>,
                           showIndices |-> EmptyIdx, currentShowIndex |-> 0,
                           picks |-> <<>>], saved),
                  now)

\* Variant of the constructor that keeps the persisted start only on a restore hit
ConstructWithHitOnly(saved) ==
    ConstructFrom(saved,
                  Restore([shows |-> FilterShows(disk), playlist |-> <<>>,
                           showIndices |-> EmptyIdx, currentShowIndex |-> 0,
                           picks |-> <<>>], saved),
                  IF saved # Null
                     /\ Restore([shows |-> FilterShows(disk), playlist |-> <<>>,
                                 showIndices |-> EmptyIdx, currentShowIndex |-> 0,
                                 picks |-> <<>>], saved).hit
                  THEN saved.startTime ELSE now)

\* The constructor from restoreState() on: restore or start fresh, generate, save
ConstructWith(saved) ==
    ConstructFrom(saved,
                  Restore([shows |-> FilterShows(disk), playlist |-> <<>>,
                           showIndices |-> EmptyIdx, currentShowIndex |-> 0,
                           picks |-> <<>>], saved),
                  IF saved # Null THEN saved.startTime ELSE now)

\* new PlaylistManager(shows, undefined, rescanCallback) from initialize();
\* the constructor's clock reads are taken at one instant
Construct ==
    /\ phase = "boot"
    /\ ConstructWith(IF RestoreState(stateFile) = Null THEN Null
                     ELSE RestoreState(stateFile).currentEpisode)
    /\ UNCHANGED <<player, now, disk, used, http, scanning>>

Answered(op, g, position, d, d3) ==
    /\ SetManager(g)
    /\ phase' = IF g.hung THEN "hung" ELSE phase
    /\ reply' = [op |-> op, at |-> now, extAt |-> now + d, posAt |-> now + d + d3,
                 anchor |-> ExtendFrom(M, now + d), item |-> g.item,
                 position |-> IF g.threw \/ g.hung THEN 0 ELSE position,
                 extended |-> g.extended, threw |-> g.threw]
    /\ now' = now + d + d3
    /\ used' = UseSkew(d + d3)

AnsweredPosition(g, d, d3) == Answered("getPosition", g, g.position, d, d3)

\* A request handler calls getCurrentItem()
RequestCurrentItem ==
    /\ phase = "running"
    /\ \E d \in ClockSkews :
        /\ Skew(d)
        /\ Answered("getCurrentItem", GetCurrentItem(M, now, now + d), 0, d, 0)
    /\ UNCHANGED <<player, disk, stateFile, playlistStartTime, saveInterval, boot, http,
                   rescanInterval, scanning>>

\* A request handler calls getPosition()
RequestPosition ==
    /\ phase = "running"
    /\ \E d \in ClockSkews, d3 \in ClockSkews :
        /\ Skew(d + d3)
        /\ AnsweredPosition(GetPosition(M, now, now + d, now + d + d3), d, d3)
    /\ UNCHANGED <<player, disk, stateFile, playlistStartTime, saveInterval, boot, http,
                   rescanInterval, scanning>>

\* A firing of the save timer at instant t leaves the manager as it is
Quiet(m, t) == GetCurrentItem(m, t, t).m = m

\* The instants at which firings stop being quiet: the last item starts to end within
\* the threshold, the first item becomes old enough to be trimmed
Edges(m) ==
    IF m.playlist = <<>> THEN {}
    ELSE {m.playlist[Len(m.playlist)].endTime - (EXTEND_THRESHOLD_MINUTES * 60 * 1000),
          m.playlist[1].endTime + (HISTORY_KEEP_MINUTES * 60 * 1000) - 1}

\* The number of firings from the one due at `due` to the first one after instant c
\* (none when c has passed)
FiringsUntil(due, c) ==
    IF c < due THEN 0 ELSE ((c - due) \div SAVE_INTERVAL_MS) + 2

\* Lengths of the runs of firings the model takes in one step
Runs(m, due) ==
    TimerRuns
    \cup (IF Quiet(m, due) THEN {} ELSE {1})
    \cup {FiringsUntil(due, c) - j : c \in Edges(m), j \in {0, 1}}

\* Variant in which the timer fires once and is not armed again
SavedOnce(s, t) ==
    /\ SetManager(s)
    /\ stateFile' = s.file
    /\ phase' = IF s.hung THEN "hung" ELSE IF s.threw THEN "crashed" ELSE phase
    /\ saveInterval' = NoTimer
    /\ reply' = [op |-> "saveState", at |-> t, extAt |-> t, posAt |-> t,
                 anchor |-> ExtendFrom(M, t), item |-> s.item, position |-> 0,
                 extended |-> s.extended, threw |-> s.threw]
    /\ now' = t
    /\ used' = [used EXCEPT !.tick = FALSE, !.skew = FALSE]

\* The save timer's callback has run at instant t and returned s
Saved10s(s, t) ==
    /\ SetManager(s)
    /\ stateFile' = s.file
    \* an exception in a timer callback is uncaught: the process exits
    /\ phase' = IF s.hung THEN "hung" ELSE IF s.threw THEN "crashed" ELSE phase
    /\ saveInterval' = IF s.hung \/ s.threw THEN NoTimer ELSE t + SAVE_INTERVAL_MS
    /\ reply' = [op |-> "saveState", at |-> t, extAt |-> t, posAt |-> t,
                 anchor |-> ExtendFrom(M, t), item |-> s.item, position |-> 0,
                 extended |-> s.extended, threw |-> s.threw]
    /\ now' = t
    /\ used' = [used EXCEPT !.tick = FALSE, !.skew = FALSE]

SaveTimerAt(k, t) ==
    /\ k >= 1
    /\ t <= BootTime + MaxSpan
    /\ k > 1 => /\ Quiet(M, saveInterval)
                /\ Quiet(M, t - SAVE_INTERVAL_MS)
    /\ Saved10s(SaveState(M, stateFile, t, t), t)

\* setInterval(() => this.saveState(), 10000): k firings in a row with no request in
\* between and no rescan that changes the catalog; the first k - 1 of them leave the
\* manager as it is. The clock reads of a firing are taken at one instant.
SaveTimer ==
    /\ phase = "running"
    /\ saveInterval # NoTimer
    /\ \E k \in Runs(M, saveInterval) :
        SaveTimerAt(k, saveInterval + ((k - 1) * SAVE_INTERVAL_MS))
    /\ UNCHANGED <<player, disk, playlistStartTime, boot, http, rescanInterval, scanning>>

\* Time passes after a firing of the save timer, before the requests of that period
Tick ==
    /\ phase = "running"
    /\ saveInterval # NoTimer
    /\ ~used.tick
    /\ reply.op \in {"construct", "saveState", "rescan", "rescanFailed", "reloadShows"}
    /\ \E d \in ClockSteps :
        /\ now + d < saveInterval
        /\ now + d <= BootTime + MaxSpan
        /\ now' = now + d
    /\ used' = [used EXCEPT !.tick = TRUE]
    /\ UNCHANGED <<player, phase, disk, stateFile, shows, playlist, showIndices, currentShowIndex,
                   playlistStartTime, saveInterval, picks, boot, reply, http,
                   rescanInterval, scanning>>

\* What the rescan callback resolves to: scanShows returns the catalog it read, or []
\* from its catch when reading the directory fails
ScanShows == [failed : {FALSE}, shows : Catalogs] \cup {[failed |-> TRUE, shows |-> <<>>]}

\* Variant of the rescan's loop that starts every show of the new list at 0
ReconcileReset(idx, filteredShows) == InitializeIndices([n \in {} |-> 0], filteredShows)

\* for (const show of this.shows) if (!this.showIndices.has(show.name)) set(name, 0)
Reconcile(idx, filteredShows) == InitializeIndices(idx, filteredShows)

\* The manager after its show list was replaced by newShows with cursors idx
Replaced(op, newShows, idx) ==
    /\ shows' = newShows
    /\ showIndices' = idx
    /\ picks' = IF newShows = shows THEN picks ELSE <<>>
    /\ reply' = [NoReply EXCEPT !.op = op, !.at = now]
    /\ used' = [used EXCEPT !.reloads = @ + 1]

\* setInterval(() => this.rescanForNewEpisodes(), 5 * 60 * 1000):
\* rescanForNewEpisodes() from the await of rescanCallback() on, when the scan returns a
\* catalog other than the last one. A catalog is first used by the next build of the
\* window, so the rescans between two builds are taken right after the first of the two.
Rescan ==
    /\ phase = "running"
    /\ rescanInterval
    /\ scanning = <<>>
    /\ \/ reply.op \in {"construct", "rescan", "rescanFailed"}
       \/ reply.op = "saveState" /\ reply.extended
    /\ used.reloads < used.budget
    /\ \E scan \in ScanShows :
        /\ scan.shows # disk
        /\ disk' = scan.shows
        /\ Replaced(IF scan.failed THEN "rescanFailed" ELSE "rescan",
                    FilterShows(scan.shows),
                    Reconcile(showIndices, FilterShows(scan.shows)))
    /\ UNCHANGED <<player, now, phase, stateFile, playlist, currentShowIndex,
                   playlistStartTime, saveInterval, boot, http,
                   rescanInterval, scanning>>

\* Variant of reloadShows that keeps the cursors of the shows it knows
ReloadedKeep(idx, filteredShows) == InitializeIndices(idx, filteredShows)

\* this.showIndices.clear(); this.initializeIndices()
Reloaded(idx, filteredShows) == InitializeIndices([n \in {} |-> 0], filteredShows)

\* Variant of reloadShows that also drops the items whose episode left the catalog
ReloadShowsPruning ==
    /\ phase = "running"
    /\ \/ reply.op \in {"construct", "reloadShows"}
       \/ reply.op = "saveState" /\ reply.extended
    /\ used.reloads < used.budget
    /\ \E newShows \in Catalogs :
        /\ Replaced("reloadShows", FilterShows(newShows),
                    Reloaded(showIndices, FilterShows(newShows)))
        /\ playlist' = SelectSeq(playlist,
                           LAMBDA it : it.episode.showName \in
                               {newShows[i].name : i \in 1..Len(newShows)})
    /\ currentShowIndex' = 0
    /\ UNCHANGED <<player, now, phase, disk, stateFile,
                   playlistStartTime, saveInterval, boot, http,
                   rescanInterval, scanning>>

\* reloadShows(shows), called where a rescan could run
ReloadShows ==
    /\ phase = "running"
    /\ \/ reply.op \in {"construct", "reloadShows"}
       \/ reply.op = "saveState" /\ reply.extended
    /\ used.reloads < used.budget
    /\ \E newShows \in Catalogs :
        Replaced("reloadShows", FilterShows(newShows),
                 Reloaded(showIndices, FilterShows(newShows)))
    /\ currentShowIndex' = 0
    /\ UNCHANGED <<player, now, phase, disk, stateFile, playlist,
                   playlistStartTime, saveInterval, boot, http,
                   rescanInterval, scanning>>

\* The rescan timer fires: rescanForNewEpisodes() up to its await of rescanCallback(),
\* which will resolve to scan; started counts the rescans that began before this one
RescanBegin ==
    /\ phase = "running"
    /\ rescanInterval
    /\ \/ reply.op \in {"construct", "rescan", "rescanFailed"}
       \/ reply.op = "saveState" /\ reply.extended
    /\ used.reloads + Len(scanning) < used.budget
    /\ \E scan \in ScanShows :
         scanning' = Append(scanning, [failed |-> scan.failed, shows |-> scan.shows,
                                       started |-> used.reloads + Len(scanning)])
    /\ UNCHANGED <<player, now, phase, disk, stateFile, shows, playlist, showIndices,
                   currentShowIndex, playlistStartTime, saveInterval, picks, boot, reply,
                   used, http, rescanInterval>>

\* The body of rescanForNewEpisodes() after its await resolved to scan; rest are the
\* scans still in flight
RescanResolved(scan, rest) ==
    /\ disk' = scan.shows
    /\ Replaced(IF scan.failed THEN "rescanFailed" ELSE "rescan",
                FilterShows(scan.shows),
                Reconcile(showIndices, FilterShows(scan.shows)))
    /\ scanning' = rest

\* rescanForNewEpisodes() from the await on, when one of the scans in flight resolves:
\* the promises of overlapping scans settle in any order, and nothing in the method
\* asks which scan started last or whether the manager was destroyed meanwhile
RescanEnd ==
    /\ phase \in {"running", "destroyed"}
    /\ \E i \in 1..Len(scanning) :
         RescanResolved(scanning[i],
                        SubSeq(scanning, 1, i - 1) \o SubSeq(scanning, i + 1, Len(scanning)))
    /\ UNCHANGED <<player, now, phase, stateFile, playlist, currentShowIndex,
                   playlistStartTime, saveInterval, boot, http, rescanInterval>>

\* destroy() after its saveState() returned s: both timers are cleared first
Destroyed(s) ==
    /\ SetManager(s)
    /\ stateFile' = s.file
    /\ saveInterval' = NoTimer
    /\ rescanInterval' = FALSE
    /\ phase' = IF s.hung THEN "hung" ELSE "destroyed"
    /\ reply' = [op |-> "destroy", at |-> now, extAt |-> now, posAt |-> now,
                 anchor |-> ExtendFrom(M, now), item |-> s.item, position |-> 0,
                 extended |-> s.extended, threw |-> s.threw]

\* destroy(), called by the owner of the manager
Destroy ==
    /\ phase = "running"
    /\ Destroyed(SaveState(M, stateFile, now, now))
    /\ UNCHANGED <<player, now, disk, playlistStartTime, boot, used, http, scanning>>

Next ==
    \/ Construct
    \/ RequestCurrentItem
    \/ RequestPosition
    \/ SaveTimer
    \/ Tick
    \/ Rescan

Spec == Init /\ [][Next]_vars

\* Starts from every state file, with the catalog as it was scanned at the start
InitRestore ==
    /\ now = BootTime
    /\ phase = "boot"
    /\ RestoreBoots(disk, stateFile)
    /\ shows = <<>>
    /\ playlist = <<>>
    /\ showIndices = EmptyIdx
    /\ currentShowIndex = 0
    /\ playlistStartTime = 0
    /\ saveInterval = NoTimer
    /\ picks = <<>>
    /\ boot = NoBoot
    /\ reply = NoReply
    /\ used = NoneUsed
    /\ http = NoHttp
    /\ player = NoPlayer
    /\ rescanInterval = FALSE
    /\ scanning = <<>>

NextRestore ==
    \/ Construct
    \/ RequestCurrentItem
    \/ RequestPosition
    \/ SaveTimer
    \/ Tick

SpecRestore == InitRestore /\ [][NextRestore]_vars

\* A fresh start with the scenario catalog
InitScenario ==
    /\ now = BootTime
    /\ phase = "boot"
    /\ disk = CatAB
    /\ stateFile = FileAbsent
    /\ shows = <<>>
    /\ playlist = <<>>
    /\ showIndices = EmptyIdx
    /\ currentShowIndex = 0
    /\ playlistStartTime = 0
    /\ saveInterval = NoTimer
    /\ picks = <<>>
    /\ boot = NoBoot
    /\ reply = NoReply
    /\ used = NoneUsed
    /\ http = NoHttp
    /\ player = NoPlayer
    /\ rescanInterval = FALSE
    /\ scanning = <<>>

SpecScenario == InitScenario /\ [][NextRestore]_vars

\* A fresh start with a catalog that holds sub-second files
InitSubSecond ==
    /\ now = BootTime
    /\ phase = "boot"
    /\ disk \in {CatYZ, CatW, CatAB}
    /\ stateFile = FileAbsent
    /\ shows = <<>>
    /\ playlist = <<>>
    /\ showIndices = EmptyIdx
    /\ currentShowIndex = 0
    /\ playlistStartTime = 0
    /\ saveInterval = NoTimer
    /\ picks = <<>>
    /\ boot = NoBoot
    /\ reply = NoReply
    /\ used = NoneUsed
    /\ http = NoHttp
    /\ player = NoPlayer
    /\ rescanInterval = FALSE
    /\ scanning = <<>>

SpecSubSecond == InitSubSecond /\ [][NextRestore]_vars

NextReload ==
    \/ Construct
    \/ RequestCurrentItem
    \/ SaveTimer
    \/ Tick
    \/ Rescan
    \/ ReloadShows

\* The manager with reloadShows called from outside as well
SpecReload == Init /\ [][NextReload]_vars

\* A run from the catalog X, Y in which the directory is rescanned once more
InitReappear ==
    /\ now = BootTime
    /\ phase = "boot"
    /\ disk = CatXY
    /\ stateFile = FileAbsent
    /\ shows = <<>>
    /\ playlist = <<>>
    /\ showIndices = EmptyIdx
    /\ currentShowIndex = 0
    /\ playlistStartTime = 0
    /\ saveInterval = NoTimer
    /\ picks = <<>>
    /\ boot = NoBoot
    /\ reply = NoReply
    /\ used = [NoneUsed EXCEPT !.budget = MaxReloads + 1]
    /\ http = NoHttp
    /\ player = NoPlayer
    /\ rescanInterval = FALSE
    /\ scanning = <<>>

NextReappear ==
    \/ Construct
    \/ SaveTimer
    \/ Tick
    \/ Rescan

SpecReappear == InitReappear /\ [][NextReappear]_vars

NextDestroy ==
    \/ Construct
    \/ SaveTimer
    \/ Tick
    \/ RescanBegin
    \/ RescanEnd
    \/ Destroy

\* The manager with rescans that take time and an owner that may destroy it
SpecDestroy == Init /\ [][NextDestroy]_vars

\* A run from the catalog X, Y in which a second rescan can start while the first is
\* still awaiting its scan
SpecOverlap == InitReappear /\ [][NextDestroy]_vars

(* ------------------------------------------------------------------ *)
(* HTTP server                                                         *)
(* ------------------------------------------------------------------ *)

\* Number.parseInt(text, 10) of a non-empty run of decimal digits
RECURSIVE ParseInt(_)
ParseInt(digits) ==
    IF Len(digits) = 1 THEN digits[1]
    ELSE (ParseInt(SubSeq(digits, 1, Len(digits) - 1)) * 10) + digits[Len(digits)]

\* ?start= of a stream request as its digits, <<>> when the parameter is not given
StartQueries == {<<>>, <<0>>, <<4, 5>>}

\* What ffprobe finds: it fails, there is no audio stream, or the first audio
\* stream's codec_name
Probes == {"failed", "noaudio", "aac", "ac3"}

\* The episode's file when the request arrives
FilesOnDisk ==
    {[exists |-> FALSE, readable |-> FALSE, size |-> 0],
     [exists |-> TRUE, readable |-> FALSE, size |-> 1000],
     [exists |-> TRUE, readable |-> TRUE, size |-> 1000],
     [exists |-> TRUE, readable |-> TRUE, size |-> 20000000]}

\* Range: bytes=<first>-<last> as the digits on both sides of the dash
\* (last is <<>> in an open-ended range), Null when the header is not sent
Bytes(first, last) == [first |-> first, last |-> last]

RangeHeaders == {Null, Bytes(<<0>>, <<>>), Bytes(<<5, 0, 0>>, <<9, 9, 9>>)}

CompatibleCodecs == {"aac", "mp3", "opus", "vorbis"}

CheckAudioCodec(probe) ==
    IF probe = "failed"
    THEN [rejected |-> TRUE, needsTranscoding |-> FALSE, codec |-> ""]
    ELSE IF probe = "noaudio"
    THEN [rejected |-> FALSE, needsTranscoding |-> FALSE, codec |-> "none"]
    ELSE [rejected |-> FALSE, needsTranscoding |-> probe \notin CompatibleCodecs,
          codec |-> probe]

\* res.status(code).json(...) / .send(...): the response is complete
Reply(h, code, body) == [h EXCEPT !.status = code, !.headersSent = TRUE, !.body = body]

\* if (startPosition > 0) command.seekInput(startPosition)
SeekInput(startPosition, needsTranscoding) ==
    IF startPosition > 0 THEN [seconds |-> startPosition] ELSE Null

\* streamWithFFmpeg up to .pipe(res): the headers are set, nothing is sent yet
StreamWithFFmpeg(h, startPosition, needsTranscoding) ==
    [h EXCEPT !.mode = IF needsTranscoding THEN "transcode" ELSE "copy",
              !.status = 200,
              !.acceptRanges = "none",
              !.seek = SeekInput(startPosition, needsTranscoding),
              !.body = "ffmpeg",
              !.proc = "running"]

\* Variant that sends the rest of the file for an open-ended range
OpenEndRest(start, fileSize) == fileSize - 1

\* end = Math.min(start + INITIAL_CHUNK - 1, fileSize - 1)
OpenEnd(start, fileSize) == Min(start + INITIAL_CHUNK - 1, fileSize - 1)

RangeEnd(range, start, fileSize) ==
    IF range.last = <<>> THEN OpenEnd(start, fileSize) ELSE ParseInt(range.last)

\* res.writeHead(code, head) and the read stream piped into the response
FileHead(h, code, contentRange, chunksize) ==
    [h EXCEPT !.mode = "original", !.status = code, !.headersSent = TRUE,
              !.acceptRanges = "bytes", !.contentRange = contentRange,
              !.contentLength = chunksize, !.body = "file", !.proc = "open"]

RangeReply(h, start, end, fileSize) ==
    IF start >= fileSize \/ end >= fileSize \/ start > end
    THEN Reply([h EXCEPT !.mode = "original"], 416, "text")
    ELSE FileHead(h, 206, [first |-> start, last |-> end, size |-> fileSize],
                  (end - start) + 1)

\* streamOriginalFile: fs.statSync throws when the file does not exist
StreamOriginalFile(h, file, range) ==
    IF ~file.exists THEN Reply([h EXCEPT !.mode = "original"], 500, "json")
    ELSE IF range # Null
    THEN RangeReply(h, ParseInt(range.first),
                    RangeEnd(range, ParseInt(range.first), file.size), file.size)
    ELSE FileHead(h, 200, Null, file.size)

\* const startPosition = req.query.start ? Number.parseInt(req.query.start, 10) : 0
StartPosition(query) == IF query = <<>> THEN 0 ELSE ParseInt(query)

\* Variant that leaves seeking to the client when the audio is compatible
UsesFFmpegTranscodingOnly(startPosition, needsTranscoding) == needsTranscoding

\* if (startPosition > 0 || needsTranscoding)
UsesFFmpeg(startPosition, needsTranscoding) == startPosition > 0 \/ needsTranscoding

\* The try block of GET /api/stream and its catch
Dispatch(h, startPosition, codec, file, range) ==
    IF codec.rejected THEN StreamOriginalFile(h, file, range)
    ELSE IF UsesFFmpeg(startPosition, codec.needsTranscoding)
    THEN StreamWithFFmpeg(h, startPosition, codec.needsTranscoding)
    ELSE StreamOriginalFile(h, file, range)

Request(route, query, range, probe, file) ==
    [NoHttp EXCEPT !.route = route, !.constructed = phase # "boot",
                   !.start = StartPosition(query), !.range = range,
                   !.probe = probe, !.file = file]

\* GET /api/stream after getCurrentItem() returned g
StreamResponse(h, g, query, range, probe, file) ==
    IF g.item = Null THEN Reply(h, 404, "json")
    ELSE Dispatch([h EXCEPT !.item = g.item], StartPosition(query),
                  CheckAudioCodec(probe), file, range)

\* The handler after getCurrentItem() returned g; an exception that leaves an async
\* handler is an unhandled rejection, which ends the process
StreamAnswered(g, d, queries, ranges, probes, files) ==
    /\ SetManager(g)
    /\ phase' = IF g.hung THEN "hung" ELSE IF g.threw THEN "crashed" ELSE phase
    /\ reply' = [op |-> "getCurrentItem", at |-> now, extAt |-> now + d, posAt |-> now + d,
                 anchor |-> ExtendFrom(M, now + d), item |-> g.item, position |-> 0,
                 extended |-> g.extended, threw |-> g.threw]
    /\ now' = now + d
    /\ \E query \in queries, range \in ranges, probe \in probes, file \in files :
         http' = IF g.hung \/ g.threw THEN Request("stream", query, range, probe, file)
                 ELSE StreamResponse(Request("stream", query, range, probe, file), g,
                                     query, range, probe, file)

\* app.get('/api/stream', ...) for requests and files drawn from the given sets
StreamOf(queries, ranges, probes, files) ==
    /\ phase \in {"boot", "running"}
    /\ used.requests < MaxRequests
    /\ IF phase = "boot"
       THEN /\ http' = Reply(Request("stream", <<>>, Null, "none", Null), 503, "json")
            /\ used' = [used EXCEPT !.requests = @ + 1]
            /\ UNCHANGED <<now, phase, shows, playlist, showIndices, currentShowIndex,
                           picks, reply>>
       ELSE \E d \in ClockSkews :
                 /\ Skew(d)
                 /\ StreamAnswered(GetCurrentItem(M, now, now + d), d,
                                   queries, ranges, probes, files)
                 /\ used' = [used EXCEPT !.requests = @ + 1, !.skew = @ \/ d > 0]
    /\ UNCHANGED <<player, disk, stateFile, playlistStartTime, saveInterval, boot,
                   rescanInterval, scanning>>

\* Variant that answers 404 when nothing is on air, as the stream route does
CurrentResponseNotFound(h, c, p) ==
    IF c.item = Null THEN Reply(h, 404, "json")
    ELSE Reply([h EXCEPT !.item = c.item, !.position = p.position], 200, "json")

\* res.json({ currentItem, position, timestamp }); an exception that leaves a
\* synchronous handler is answered by the framework's error handler
CurrentResponse(h, c, p) ==
    IF c.threw \/ p.threw THEN Reply(h, 500, "html")
    ELSE Reply([h EXCEPT !.item = c.item, !.position = p.position], 200, "json")

\* The handler after getCurrentItem() returned c and getPosition() returned p
CurrentPositioned(c, p, d) ==
    /\ SetManager(p)
    /\ phase' = IF c.hung \/ p.hung THEN "hung" ELSE phase
    /\ reply' = [op |-> "getPosition", at |-> now + d, extAt |-> now + d,
                 posAt |-> now + d, anchor |-> ExtendFrom(c.m, now + d),
                 item |-> p.item, position |-> p.position,
                 extended |-> c.extended \/ p.extended, threw |-> c.threw \/ p.threw]
    /\ now' = now + d
    /\ http' = IF c.hung \/ p.hung THEN Request("current", <<>>, Null, "none", Null)
               ELSE CurrentResponse([Request("current", <<>>, Null, "none", Null)
                                       EXCEPT !.timestamp = now + d], c, p)

CurrentAnswered(c, d) ==
    CurrentPositioned(c,
                      IF c.threw \/ c.hung
                      THEN [m |-> c.m, item |-> Null, extended |-> FALSE,
                            threw |-> c.threw, hung |-> c.hung, position |-> 0]
                      ELSE GetPosition(c.m, now + d, now + d, now + d),
                      d)

\* app.get('/api/current', ...): getPosition() may read a later clock than
\* getCurrentItem() did
Current ==
    /\ phase \in {"boot", "running"}
    /\ used.requests < MaxRequests
    /\ IF phase = "boot"
       THEN /\ http' = Reply(Request("current", <<>>, Null, "none", Null), 503, "json")
            /\ used' = [used EXCEPT !.requests = @ + 1]
            /\ UNCHANGED <<now, phase, shows, playlist, showIndices, currentShowIndex,
                           picks, reply>>
       ELSE \E d \in ClockSkews :
                 /\ Skew(d)
                 /\ CurrentAnswered(GetCurrentItem(M, now, now), d)
                 /\ used' = [used EXCEPT !.requests = @ + 1, !.skew = @ \/ d > 0]
    /\ UNCHANGED <<player, disk, stateFile, playlistStartTime, saveInterval, boot,
                   rescanInterval, scanning>>

Stream == StreamOf(StartQueries, RangeHeaders, Probes, FilesOnDisk)

Manager == <<now, phase, disk, stateFile, shows, playlist, showIndices, currentShowIndex,
             playlistStartTime, saveInterval, picks, boot, reply, used,
             rescanInterval, scanning, player>>

\* The transcoder's output reaches the response: the first write sends the headers
TranscoderData ==
    /\ http.body = "ffmpeg"
    /\ http.proc = "running"
    /\ ~http.headersSent
    /\ http' = [http EXCEPT !.headersSent = TRUE]
    /\ UNCHANGED Manager

\* .on('error', ...) of the ffmpeg command and of the read streams:
\* if (!res.headersSent) res.status(500).json(...)
OnError(h) ==
    IF ~h.headersSent THEN [Reply(h, 500, "json") EXCEPT !.proc = "failed"]
    ELSE [h EXCEPT !.proc = "failed", !.logged = TRUE]

\* The ffmpeg command emits 'error'
TranscoderError ==
    /\ http.body = "ffmpeg"
    /\ http.proc = "running"
    /\ http' = OnError(http)
    /\ UNCHANGED Manager

\* The ffmpeg command emits 'end'; pipe(res, { end: true }) ends the response
TranscoderEnd ==
    /\ http.body = "ffmpeg"
    /\ http.proc = "running"
    /\ http' = [http EXCEPT !.headersSent = TRUE, !.proc = "ended"]
    /\ UNCHANGED Manager

\* The read stream emits 'error': the file cannot be opened or read
ReadStreamError ==
    /\ http.body = "file"
    /\ http.proc = "open"
    /\ ~http.file.readable
    /\ http' = OnError(http)
    /\ UNCHANGED Manager

\* The read stream reaches the end of its range
ReadStreamEnd ==
    /\ http.body = "file"
    /\ http.proc = "open"
    /\ http.file.readable
    /\ http' = [http EXCEPT !.proc = "ended"]
    /\ UNCHANGED Manager

\* The starts of Boots, and one a millisecond before the restored episode ends
HttpBoots(cat, file) ==
    \/ Boots(cat, file)
    \/ cat = CatXY /\ file = Saved("X", 1, 2, "", BootTime - 2699999)

InitHttp ==
    /\ now = BootTime
    /\ phase = "boot"
    /\ HttpBoots(disk, stateFile)
    /\ shows = <<>>
    /\ playlist = <<>>
    /\ showIndices = EmptyIdx
    /\ currentShowIndex = 0
    /\ playlistStartTime = 0
    /\ saveInterval = NoTimer
    /\ picks = <<>>
    /\ boot = NoBoot
    /\ reply = NoReply
    /\ used = NoneUsed
    /\ http = NoHttp
    /\ player = NoPlayer
    /\ rescanInterval = FALSE
    /\ scanning = <<>>

NextHttp ==
    \/ Construct
    \/ Tick
    \/ Stream
    \/ Current
    \/ TranscoderData
    \/ TranscoderError
    \/ TranscoderEnd
    \/ ReadStreamError
    \/ ReadStreamEnd

SpecHttp == InitHttp /\ [][NextHttp]_vars

\* Range requests without ?start= for files of three sizes, the last one larger than
\* an initial chunk
RangeFirsts == {<<0>>, <<5, 0, 0>>, <<9, 9, 9>>, <<1, 0, 0, 0>>, <<1, 5, 0, 0, 0, 0, 0, 0>>}

RangeLasts ==
    {<<>>, <<0>>, <<4, 9, 9>>, <<9, 9, 9>>, <<1, 0, 0, 0>>,
     <<1, 9, 9, 9, 9, 9, 9, 9>>, <<2, 0, 0, 0, 0, 0, 0, 0>>}

RangeRequests == {Bytes(first, last) : first \in RangeFirsts, last \in RangeLasts}

RangeFiles ==
    {[exists |-> TRUE, readable |-> r, size |-> n] :
        r \in BOOLEAN, n \in {1000, 10485760, 20000000}}

StreamRange == StreamOf({<<>>}, RangeRequests, {"aac", "failed"}, RangeFiles)

InitRange ==
    /\ now = BootTime
    /\ phase = "boot"
    /\ disk = CatXY
    /\ stateFile = FileAbsent
    /\ shows = <<>>
    /\ playlist = <<>>
    /\ showIndices = EmptyIdx
    /\ currentShowIndex = 0
    /\ playlistStartTime = 0
    /\ saveInterval = NoTimer
    /\ picks = <<>>
    /\ boot = NoBoot
    /\ reply = NoReply
    /\ used = NoneUsed
    /\ http = NoHttp
    /\ player = NoPlayer
    /\ rescanInterval = FALSE
    /\ scanning = <<>>

NextRange ==
    \/ Construct
    \/ StreamRange
    \/ ReadStreamError
    \/ ReadStreamEnd

SpecRange == InitRange /\ [][NextRange]_vars

(* ------------------------------------------------------------------ *)
(* The browser client (App.vue)                                        *)
(* ------------------------------------------------------------------ *)

\* Fallback of syncToCurrentPosition: the flag is reset after 5 s without metadata
LOADING_TIMEOUT_MS == 5000

\* Everything outside the browser
Backend == <<now, phase, disk, stateFile, shows, playlist, showIndices, currentShowIndex,
             playlistStartTime, saveInterval, picks, boot, reply, used, http,
             rescanInterval, scanning>>

RECURSIVE Digits(_)
\* The decimal digits of a natural number, as the template literal writes them
Digits(n) == IF n < 10 THEN <<n>> ELSE Digits(n \div 10) \o <<n % 10>>

\* const startParam = data.position > 0 ? `?start=${Math.floor(data.position)}` : ''
StartParam(position) == IF position > 0 THEN Digits(position) ELSE <<>>

\* The try block of syncToCurrentPosition once /api/current answered data at t: the
\* video is reloaded only if the path differs from the remembered one
Synced(pl, data, t) ==
    IF data.item # Null /\ pl.currentEpisodePath # data.item.episode.path
    THEN [pl EXCEPT !.isLoadingNewEpisode = TRUE,
                    !.currentEpisodePath = data.item.episode.path,
                    !.loadingTimeout = t + LOADING_TIMEOUT_MS,
                    !.src = [query |-> StartParam(data.position)],
                    !.fetching = TRUE,
                    !.playing = Null,
                    !.ended = FALSE,
                    !.syncs = @ + 1]
    ELSE [pl EXCEPT !.syncs = @ + 1]

\* The catch block of syncToCurrentPosition
SyncCaught(pl) == [pl EXCEPT !.isLoadingNewEpisode = FALSE, !.loadingTimeout = NoTimer]

\* syncToCurrentPosition() of the client pl: returns at once while a load is under
\* way, else asks /api/current; a body that is not JSON makes response.json() throw
SyncToCurrentPosition(pl) ==
    /\ ~pl.isLoadingNewEpisode
    /\ pl.syncs < MaxSyncs
    /\ CurrentAnswered(GetCurrentItem(M, now, now), 0)
    /\ player' = IF http'.status = 0 THEN pl
                 ELSE IF http'.body = "json" THEN Synced(pl, http', now)
                 ELSE SyncCaught(pl)
    /\ UNCHANGED <<disk, stateFile, playlistStartTime, saveInterval, boot, used,
                   rescanInterval, scanning>>

\* checkInterval = setInterval(() => syncToCurrentPosition(), 30000), and the call
\* of onMounted
CheckInterval ==
    /\ phase = "running"
    /\ SyncToCurrentPosition(player)

\* The element has played its stream to the end: 'ended' fires and handleEnded()
\* calls syncToCurrentPosition()
HandleEnded ==
    /\ phase = "running"
    /\ player.playing # Null
    /\ ~player.ended
    /\ now >= player.playing.endTime
    /\ SyncToCurrentPosition([player EXCEPT !.ended = TRUE])

\* The element requests the src it was given: GET /api/stream with the start
\* parameter; what it holds afterwards is the item the server streamed
LoadStream ==
    /\ phase = "running"
    /\ player.fetching
    /\ StreamAnswered(GetCurrentItem(M, now, now), 0, {player.src.query}, {Null},
                      {"aac", "ac3"}, {[exists |-> TRUE, readable |-> TRUE, size |-> 20000000]})
    /\ player' = [player EXCEPT !.fetching = FALSE,
                                !.playing = IF http'.status \in {200, 206}
                                            THEN http'.item ELSE Null]
    /\ UNCHANGED <<disk, stateFile, playlistStartTime, saveInterval, boot, used,
                   rescanInterval, scanning>>

\* onLoadedMetadata: the timeout is cleared and the flag reset
OnLoadedMetadata ==
    /\ player.isLoadingNewEpisode
    /\ ~player.fetching
    /\ player.playing # Null
    /\ player' = [player EXCEPT !.isLoadingNewEpisode = FALSE, !.loadingTimeout = NoTimer]
    /\ UNCHANGED Backend

\* The callback of loadingTimeout = setTimeout(..., 5000)
LoadingTimeout ==
    /\ player.loadingTimeout # NoTimer
    /\ now >= player.loadingTimeout
    /\ player' = [player EXCEPT !.isLoadingNewEpisode = FALSE, !.loadingTimeout = NoTimer]
    /\ UNCHANGED Backend

\* A fresh start from a catalog whose only episode replays, or from X, Y
InitClient ==
    /\ now = BootTime
    /\ phase = "boot"
    /\ disk \in {CatY, CatXY}
    /\ stateFile = FileAbsent
    /\ shows = <<>>
    /\ playlist = <<>>
    /\ showIndices = EmptyIdx
    /\ currentShowIndex = 0
    /\ playlistStartTime = 0
    /\ saveInterval = NoTimer
    /\ picks = <<>>
    /\ boot = NoBoot
    /\ reply = NoReply
    /\ used = NoneUsed
    /\ http = NoHttp
    /\ player = NoPlayer
    /\ rescanInterval = FALSE
    /\ scanning = <<>>

NextClient ==
    \/ Construct
    \/ SaveTimer
    \/ Tick
    \/ HandleEnded
    \/ CheckInterval
    \/ LoadStream
    \/ OnLoadedMetadata
    \/ LoadingTimeout

\* The server with one browser client
SpecClient == InitClient /\ [][NextClient]_vars

TypeOK ==
    /\ phase \in {"boot", "running", "crashed", "hung", "destroyed"}
    /\ now >= BootTime
    /\ currentShowIndex >= 0

(* ------------------------------------------------------------------ *)
(* Properties                                                          *)
(* ------------------------------------------------------------------ *)

Last(pl) == pl[Len(pl)]

\* C1: in every reachable state the window is contiguous, window[i].endTime =
\* window[i+1].startTime for every adjacent pair, and every item satisfies
\* endTime = startTime + episode.duration * 1000
C1_Contiguous ==
    /\ \A i \in 1..(Len(playlist) - 1) : playlist[i].endTime = playlist[i + 1].startTime
    /\ \A i \in 1..Len(playlist) :
          playlist[i].endTime = playlist[i].startTime + (playlist[i].episode.duration * 1000)

\* C1 at work: a window that has been extended and trimmed after a rescan
C1_Witness ==
    /\ reply.op \in {"getCurrentItem", "getPosition", "saveState"}
    /\ reply.extended
    /\ used.reloads > 0
    /\ Len(playlist) >= 3
    /\ playlist[1].startTime > playlistStartTime

\* C2: while the show list is unchanged and has k >= 1 shows, each selection of
\* getNextEpisode comes from the show that follows the show of the selection before
\* it, wrapping at the end of the list, so any k consecutive selections pick each
\* show exactly once
C2_RoundRobin ==
    /\ \A i \in 1..Len(picks) : picks[i].show \in 0..(Len(shows) - 1)
    /\ \A i \in 1..(Len(picks) - 1) :
          picks[i + 1].show = (picks[i].show + 1) % Len(shows)
    /\ \A i \in 1..Len(picks) :
          i + Len(shows) - 1 <= Len(picks)
          => /\ {picks[j].show : j \in i..(i + Len(shows) - 1)} = 0..(Len(shows) - 1)
             /\ \A j1, j2 \in i..(i + Len(shows) - 1) :
                   picks[j1].show = picks[j2].show => j1 = j2

\* C2 at work: selections that went twice around a list of two shows
C2_Witness ==
    /\ Len(shows) = 2
    /\ Len(picks) >= 4
    /\ picks[1].show = picks[3].show
    /\ picks[1].show # picks[2].show

ScenarioItem(show, e, d, from) ==
    [episode |-> Ep(show, 1, e, "", d), startTime |-> from, endTime |-> from + (d * 1000)]

\* C3 as stated: a fresh start at T0 with A (30 s, 45 s) and B (60 s) begins
\* A-ep1 [T0, T0+30s), B-ep1 [T0+30s, T0+90s), A-ep2 [T0+90s, T0+135s), and the
\* next item is A-ep1 starting at T0+135s
C3_AsStated ==
    boot.mode = "fresh" /\ boot.shows = CatAB
    => /\ Len(boot.window) >= 4
       /\ boot.window[1] = ScenarioItem("A", 1, 30, boot.at)
       /\ boot.window[2] = ScenarioItem("B", 1, 60, boot.at + 30000)
       /\ boot.window[3] = ScenarioItem("A", 2, 45, boot.at + 90000)
       /\ boot.window[4].episode = Ep("A", 1, 1, "", 30)
       /\ boot.window[4].startTime = boot.at + 135000

\* C3: a fresh start at T0 with A (30 s, 45 s) and B (60 s) begins
\* A-ep1 [T0, T0+30s), B-ep1 [T0+30s, T0+90s), A-ep2 [T0+90s, T0+135s),
\* B-ep1 [T0+135s, T0+195s), and A-ep1 comes next, at T0+195s; T0 is the instant
\* of the construction and these are the first items of the window it leaves
C3_Scenario ==
    boot.mode = "fresh" /\ boot.shows = CatAB
    => /\ Len(boot.window) >= 5
       /\ boot.window[1] = ScenarioItem("A", 1, 30, boot.at)
       /\ boot.window[2] = ScenarioItem("B", 1, 60, boot.at + 30000)
       /\ boot.window[3] = ScenarioItem("A", 2, 45, boot.at + 90000)
       /\ boot.window[4] = ScenarioItem("B", 1, 60, boot.at + 135000)
       /\ boot.window[5] = ScenarioItem("A", 1, 30, boot.at + 195000)
       /\ reply.op = "construct"
          => /\ boot.at = reply.at
             /\ SubSeq(playlist, 1, Len(boot.window)) = boot.window

\* C3 at work: the scenario catalog has been started fresh
C3_Witness ==
    /\ reply.op = "construct"
    /\ boot.mode = "fresh"
    /\ boot.shows = CatAB
    /\ Len(playlist) >= 5
    /\ playlist[4].episode.showName = "B"

\* The operations that call getCurrentItem()
Queries == {"construct", "saveState", "getCurrentItem", "getPosition"}

\* The persisted (showName, season, episode, part) names this catalog episode
Matches(ep, saved) ==
    /\ ep.showName = saved.showName
    /\ ep.season = saved.season
    /\ ep.episode = saved.episode
    /\ ep.part = saved.part

\* The constructor has read a state file whose episode is in the catalog
RestoredHit ==
    /\ boot.mode # "none"
    /\ boot.saved # Null
    /\ \E s \in 1..Len(boot.shows) : \E i \in 1..Len(boot.shows[s].episodes) :
          Matches(boot.shows[s].episodes[i], boot.saved)

\* The constructor has read a state file whose episode is not in the catalog
RestoredMiss ==
    /\ boot.mode # "none"
    /\ boot.saved # Null
    /\ \A s \in 1..Len(boot.shows) : \A i \in 1..Len(boot.shows[s].episodes) :
          ~Matches(boot.shows[s].episodes[i], boot.saved)

ItemAt(episode, from) ==
    [episode |-> episode, startTime |-> from, endTime |-> from + (episode.duration * 1000)]

\* C4: after a restart from a state file {E, startTime T} with E in the catalog,
\* every query at an instant now with T <= now < T + duration(E) reports the item
\* (E, startTime T), and getPosition reports floor((now - T) / 1000), now being
\* the clock as getPosition reads it
C4_Resumption ==
    RestoredHit
    => \A s \in 1..Len(boot.shows) : \A i \in 1..Len(boot.shows[s].episodes) :
         (/\ Matches(boot.shows[s].episodes[i], boot.saved)
          /\ reply.op \in Queries
          /\ boot.saved.startTime <= reply.at
          /\ reply.at < boot.saved.startTime + (boot.shows[s].episodes[i].duration * 1000))
         => /\ ~reply.threw
            /\ reply.item = ItemAt(boot.shows[s].episodes[i], boot.saved.startTime)
            /\ reply.op = "getPosition"
               => reply.position = (reply.posAt - boot.saved.startTime) \div 1000

\* C4 at work: (X, S1E2) persisted with startTime T, position asked at T + 90 s
C4_Witness ==
    /\ RestoredHit
    /\ boot.saved.showName = "X" /\ boot.saved.season = 1 /\ boot.saved.episode = 2
    /\ boot.at = boot.saved.startTime + 90000
    /\ reply.op = "getPosition"
    /\ reply.posAt = boot.saved.startTime + 90000
    /\ reply.item # Null
    /\ reply.item.episode = Ep("X", 1, 2, "", 2700)
    /\ reply.position = 90

\* The uninterrupted timeline of a restored channel: the rotation laid out
\* contiguously from the persisted startTime, starting with the persisted episode
Timeline(t) ==
    Find(BuildLoop([shows |-> boot.shows, playlist |-> <<>>,
                    showIndices |-> boot.showIndices,
                    currentShowIndex |-> boot.currentShowIndex, picks |-> <<>>],
                   boot.saved.startTime, t + 1).m.playlist, t)

\* C5 as stated: after a restart from {E, startTime T} with E in the catalog, for
\* every now >= T every query returns the item, and getPosition the offset, that
\* the uninterrupted timeline from T has at now
C5_OutageIndependence ==
    RestoredHit /\ reply.op \in Queries /\ reply.at >= boot.saved.startTime
    => /\ reply.item = Timeline(reply.at)
       /\ reply.op = "getPosition" /\ reply.item # Null
          => reply.position = (reply.posAt - Timeline(reply.at).startTime) \div 1000

\* C5 observed: a request after a long outage is answered with an item laid out
\* from the clock of that request, which is not what the timeline from the
\* persisted startTime has on air
C5_Witness ==
    /\ RestoredHit
    /\ reply.op \in {"getCurrentItem", "getPosition"}
    /\ reply.item # Null
    /\ reply.item.startTime >= boot.at
    /\ reply.item.startTime = reply.extAt
    /\ Timeline(reply.at) # Null
    /\ reply.item # Timeline(reply.at)

\* The show list holds a show with an episode of positive duration
Playable ==
    \E s \in 1..Len(shows) : \E i \in 1..Len(shows[s].episodes) :
        shows[s].episodes[i].duration > 0

\* C6 as stated: whenever the show list contains a show with a positive-duration
\* episode, every getCurrentItem() call returns the item whose
\* [startTime, endTime) contains now
C6_NullOnlyWhenEmpty ==
    reply.op \in Queries /\ Playable
    => /\ reply.item # Null
       /\ reply.item.startTime <= reply.at
       /\ reply.at < reply.item.endTime

\* C6 observed: the constructor's getCurrentItem() finds nothing on air although
\* the show list has episodes to play, and null is what gets persisted
C6_Witness ==
    /\ reply.op = "construct"
    /\ ~reply.threw
    /\ Playable
    /\ reply.extended
    /\ reply.item = Null
    /\ stateFile = [currentEpisode |-> Null]

\* C7: getPosition() returns floor((now - item.startTime) / 1000) for the item on
\* air at now, and 0 when no item is on air; now is the absolute clock, as
\* getCurrentItem and then getPosition read it
C7_Position ==
    reply.op = "getPosition" /\ ~reply.threw /\ phase # "hung"
    => /\ reply.item = Find(playlist, reply.at)
       /\ reply.item # Null
          => reply.position = (reply.posAt - reply.item.startTime) \div 1000
       /\ reply.item = Null => reply.position = 0

\* C7 at work: a position inside a second, some seconds into an item
C7_Witness ==
    /\ reply.op = "getPosition"
    /\ reply.item # Null
    /\ reply.position > 0
    /\ (reply.posAt - reply.item.startTime) % 1000 >= 500

\* C7 at work: a position asked when nothing is on air
C7_WitnessNoItem ==
    /\ reply.op = "getPosition"
    /\ ~reply.threw
    /\ reply.item = Null
    /\ reply.position = 0

\* C8: when the persisted episode is episode i of the show at position s, the
\* constructor sets currentShowIndex = s, that show's cursor = i and every other
\* show's cursor = 0, and the first item it generates is the persisted episode
\* starting at the persisted startTime
C8_RestoreHit ==
    RestoredHit
    => /\ boot.mode = "hit"
       /\ \A s \in 1..Len(boot.shows) : \A i \in 1..Len(boot.shows[s].episodes) :
            Matches(boot.shows[s].episodes[i], boot.saved)
            => /\ boot.currentShowIndex = s - 1
               /\ boot.shows[s].name \in DOMAIN boot.showIndices
               /\ boot.showIndices[boot.shows[s].name] = i - 1
               /\ \A o \in 1..Len(boot.shows) :
                     o # s => /\ boot.shows[o].name \in DOMAIN boot.showIndices
                              /\ boot.showIndices[boot.shows[o].name] = 0
               /\ Len(boot.window) >= 1
               /\ boot.window[1] = ItemAt(boot.shows[s].episodes[i], boot.saved.startTime)

\* C8 at work: the persisted episode is the second show's, among two shows
C8_Witness ==
    /\ RestoredHit
    /\ Len(boot.shows) = 2
    /\ boot.currentShowIndex = 1
    /\ boot.window[1].episode.showName = boot.shows[2].name

\* C8 at work: the persisted episode is not the first of its show
C8_WitnessSecondEpisode ==
    /\ RestoredHit
    /\ Len(boot.shows) = 2
    /\ boot.showIndices[boot.shows[1].name] = 1
    /\ boot.window[1].episode = boot.shows[1].episodes[2]

\* C9: when the persisted episode is not in the catalog, the constructor raises
\* no exception, the rotation starts at show index 0 with every show's cursor at
\* 0, and the first item generated is episode 0 of show 0
C9_RestoreMiss ==
    RestoredMiss
    => /\ boot.mode = "miss"
       /\ reply.op = "construct" => ~reply.threw /\ phase = "running"
       /\ boot.currentShowIndex = 0
       /\ \A s \in 1..Len(boot.shows) :
            /\ boot.shows[s].name \in DOMAIN boot.showIndices
            /\ boot.showIndices[boot.shows[s].name] = 0
       /\ Len(boot.shows) > 0
          => /\ Len(boot.window) >= 1
             /\ boot.window[1].episode = boot.shows[1].episodes[1]

\* C9 at work: a state file naming an episode of a show the catalog does not have
C9_Witness ==
    /\ RestoredMiss
    /\ reply.op = "construct"
    /\ Len(boot.shows) > 0
    /\ boot.saved.showName # boot.shows[1].name
    /\ boot.window[1].episode.showName = boot.shows[1].name

\* An extension has just run and the window is not empty
JustExtended ==
    /\ reply.op \in Queries
    /\ reply.extended
    /\ ~reply.threw
    /\ phase # "hung"
    /\ playlist # <<>>

\* The durations of the episodes of the show list
Durations ==
    UNION {{shows[s].episodes[i].duration : i \in 1..Len(shows[s].episodes)} :
           s \in 1..Len(shows)}

\* C10 as stated: immediately after any window extension performed at instant
\* now, the last item's endTime - now <= 2 h + the duration of one episode
\* (whichever episode of the show list is taken)
C10_AsStated ==
    JustExtended /\ shows # <<>>
    => \E d \in Durations :
         Last(playlist).endTime - reply.extAt
           <= (EXTEND_LOOKAHEAD_HOURS * 60 * 60 * 1000) + (d * 1000)

\* The window was laid out from an instant that is not after the clock
AnchoredInPast == boot.saved = Null \/ boot.saved.startTime <= boot.at

\* C10: immediately after any window extension performed at instant now, the last
\* item's endTime - A <= 2 h + the duration of that item's episode, where A is the
\* later of now and the end of the window before the extension; when the window
\* was laid out from an instant not after the clock, A is less than 30 min after
\* now, so endTime - now < 2 h 30 min + the duration of that item's episode
C10_WindowBound ==
    JustExtended
    => /\ Last(playlist).endTime - Max(reply.extAt, reply.anchor)
            <= (EXTEND_LOOKAHEAD_HOURS * 60 * 60 * 1000)
               + (Last(playlist).episode.duration * 1000)
       /\ AnchoredInPast
          => /\ reply.anchor - reply.extAt < EXTEND_THRESHOLD_MINUTES * 60 * 1000
             /\ Last(playlist).endTime - reply.extAt
                  < (EXTEND_LOOKAHEAD_HOURS * 60 * 60 * 1000)
                    + (EXTEND_THRESHOLD_MINUTES * 60 * 1000)
                    + (Last(playlist).episode.duration * 1000)

\* C10 at work: an extension, made while an item was on air, that ends more than
\* 2 h and one episode after now
C10_Witness ==
    /\ JustExtended
    /\ reply.item # Null
    /\ reply.anchor > reply.extAt
    /\ Last(playlist).endTime > reply.anchor
    /\ Last(playlist).endTime - reply.extAt
         > (EXTEND_LOOKAHEAD_HOURS * 60 * 60 * 1000)
           + (Last(playlist).episode.duration * 1000)

\* C11: immediately after any window extension performed at instant now, no
\* retained item has endTime < now - 30 min: every retained item ends after the
\* cutoff now - 30 min
C11_HistoryTrim ==
    JustExtended
    => \A i \in 1..Len(playlist) :
         playlist[i].endTime > reply.extAt - (HISTORY_KEEP_MINUTES * 60 * 1000)

\* C11 at work: an extension that removed the oldest items and kept one that
\* ended less than 30 min before
C11_Witness ==
    /\ JustExtended
    /\ playlist[1].startTime > playlistStartTime
    /\ playlist[1].endTime < reply.extAt

\* Selections i < j of picks are successive selections from one show
SameShowNext(i, j) ==
    /\ i < j
    /\ picks[i].show = picks[j].show
    /\ \A k \in (i + 1)..(j - 1) : picks[k].show # picks[i].show

\* C12: for a fixed catalog, the successive selections taken from one show walk
\* its episode list in order and restart at index 0 after the last episode, and
\* getNextEpisode() returns an episode, never null, whenever the show list has at
\* least one show
C12_PerShowOrder ==
    /\ \A i \in 1..Len(picks) :
          picks[i].index \in 0..(Len(shows[picks[i].show + 1].episodes) - 1)
    /\ \A i, j \in 1..Len(picks) :
          SameShowNext(i, j)
          => picks[j].index
               = IF picks[i].index + 1 >= Len(shows[picks[i].show + 1].episodes)
                 THEN 0 ELSE picks[i].index + 1
    /\ phase = "running" /\ used.reloads = 0 /\ shows # <<>>
       => /\ ~GetNextEpisode(M).threw
          /\ GetNextEpisode(M).episode # Null
          /\ \E i \in 1..Len(shows[currentShowIndex + 1].episodes) :
                GetNextEpisode(M).episode = shows[currentShowIndex + 1].episodes[i]

\* C12 at work: a show of three episodes is taken up again at its first episode
\* after its last, and walked on from there
C12_Witness ==
    /\ used.reloads = 0
    /\ \E i, j, k \in 1..Len(picks) :
          /\ SameShowNext(i, j)
          /\ SameShowNext(j, k)
          /\ Len(shows[picks[i].show + 1].episodes) = 3
          /\ picks[i].index = 2
          /\ picks[j].index = 0
          /\ picks[k].index = 1

\* A stream request that found an item on air and was dispatched
Dispatched == http.route = "stream" /\ http.item # Null

TranscodeOrCopy == http.mode \in {"transcode", "copy"}

Passthrough == http.mode = "original"

\* The probe found an audio codec that is none of aac, mp3, opus, vorbis
Incompatible == http.probe \notin {"failed", "noaudio", "aac", "mp3", "opus", "vorbis"}

\* Where the transcoder starts reading its input, in seconds
InputOffset == IF http.seek = Null THEN 0 ELSE http.seek.seconds

\* C13 as stated: for every dispatched stream request the mode is Transcode-or-Copy
\* exactly when start > 0 or the probed audio codec is incompatible, whatever the
\* outcome of the probe.
C13_AsStated ==
    Dispatched => (TranscodeOrCopy <=> (http.start > 0 \/ Incompatible))

\* C13 (amended): for every stream request while an item is on air, when the probe
\* succeeds the mode is Transcode-or-Copy exactly when start > 0 or the probed audio
\* codec is incompatible, and when the probe fails the mode is Passthrough whatever
\* start is. In Transcode-or-Copy the input is read from exactly `start` seconds and
\* Accept-Ranges is none; Passthrough answers a Range header with 206 or 416 and
\* announces Accept-Ranges: bytes with the file. start = 0 with a compatible codec is
\* Passthrough, start = 45 with a successful probe is Transcode-or-Copy seeked to 45.
C13_Dispatch ==
    Dispatched
    => /\ TranscodeOrCopy \/ Passthrough
       /\ ~(TranscodeOrCopy /\ Passthrough)
       /\ http.probe # "failed" => (TranscodeOrCopy <=> (http.start > 0 \/ Incompatible))
       /\ http.probe = "failed" => Passthrough
       /\ TranscodeOrCopy => /\ InputOffset = http.start
                             /\ http.acceptRanges = "none"
                             /\ http.contentRange = Null
       /\ Passthrough /\ http.file.exists
            => /\ http.range # Null => http.status \in {206, 416}
               /\ http.status \in {200, 206} => http.acceptRanges = "bytes"
       /\ http.start = 0 /\ http.probe \in {"aac", "noaudio"} => Passthrough
       /\ http.start = 45 /\ http.probe # "failed" => TranscodeOrCopy /\ http.seek = [seconds |-> 45]

\* A request with start = 45 for a file with compatible audio is in copy mode, seeked
\* to 45 s, with range support off
C13_Witness ==
    /\ Dispatched
    /\ http.start = 45
    /\ http.probe = "aac"
    /\ http.mode = "copy"
    /\ http.seek = [seconds |-> 45]
    /\ http.acceptRanges = "none"

\* A request with start = 45 whose probe failed is served the original file
C13_WitnessProbeFailed ==
    /\ Dispatched
    /\ http.start = 45
    /\ http.probe = "failed"
    /\ Passthrough
    /\ http.status = 200

\* A range request answered by streamOriginalFile for a file that exists
Ranged ==
    /\ http.route = "stream"
    /\ http.mode = "original"
    /\ http.range # Null
    /\ http.file.exists

\* The end of the range 'bytes=s-e' of a file of size N as the claim gives it
EndOf(s, last, N) ==
    IF last = <<>> THEN Min(s + (10 * 1024 * 1024) - 1, N - 1) ELSE ParseInt(last)

Satisfiable(s, end, N) == ~(s >= N \/ end >= N \/ s > end)

RangeAnswer(s, end, N) ==
    /\ ~Satisfiable(s, end, N) => http.status = 416
    /\ Satisfiable(s, end, N)
         => /\ http.status = 206
            /\ http.contentRange = [first |-> s, last |-> end, size |-> N]
            /\ http.contentLength = (end - s) + 1
    /\ http.status = 206 => 0 <= s /\ s <= end /\ end < N

\* C14: a request with Range 'bytes=s-e' for a file of size N, an omitted e standing
\* for min(s + 10 MiB - 1, N - 1), is answered 416 when s >= N or end >= N or s > end,
\* and otherwise 206 with Content-Range 'bytes s-end/N' and Content-Length end - s + 1;
\* every 206 has 0 <= s <= end < N.
C14_Range ==
    Ranged => RangeAnswer(ParseInt(http.range.first),
                          EndOf(ParseInt(http.range.first), http.range.last, http.file.size),
                          http.file.size)

\* An open-ended range from 0 on a 20 000 000 byte file is cut at one initial chunk
C14_Witness ==
    /\ Ranged
    /\ http.range = Bytes(<<0>>, <<>>)
    /\ http.file.size = 20000000
    /\ http.status = 206
    /\ http.contentRange = [first |-> 0, last |-> 10485759, size |-> 20000000]
    /\ http.contentLength = 10485760

\* A range that ends at the file size is refused
C14_WitnessUnsatisfiable ==
    /\ Ranged
    /\ http.range = Bytes(<<5, 0, 0>>, <<1, 0, 0, 0>>)
    /\ http.file.size = 1000
    /\ http.status = 416

\* The request was made at reply.at; no item of the window covers that instant
NothingOnAir ==
    ~\E i \in 1..Len(playlist) :
        playlist[i].startTime <= reply.at /\ reply.at < playlist[i].endTime

\* C15: /stream and /current answer 503 exactly when the request arrives before the
\* PlaylistManager is constructed. Once it is constructed, /stream answers 404 exactly
\* when no item is on air, and /current answers 200 with currentItem null and
\* position 0 when no item is on air.
C15_ResponseCodes ==
    http.route \in {"stream", "current"}
    => /\ http.status = 503 <=> ~http.constructed
       /\ ~http.constructed => phase = "boot" \/ reply.op = "construct"
       /\ http.constructed /\ http.route = "stream"
            => /\ http.status = 404 <=> NothingOnAir
               /\ NothingOnAir <=> http.item = Null
       /\ http.constructed /\ http.route = "current" /\ http.item = Null
            => http.status = 200 /\ http.position = 0
       /\ http.constructed /\ http.route = "current" => http.status = 200

\* A stream request after construction with nothing on air is answered 404
C15_Witness ==
    /\ http.route = "stream"
    /\ http.constructed
    /\ NothingOnAir
    /\ http.status = 404

\* A request before construction is answered 503
C15_WitnessNotReady ==
    /\ http.route = "current"
    /\ phase = "boot"
    /\ http.status = 503

\* /current with nothing on air
C15_WitnessCurrentNull ==
    /\ http.route = "current"
    /\ http.constructed
    /\ http.item = Null
    /\ http.status = 200
    /\ http.position = 0

\* /current with an item on air, some seconds in
C15_WitnessCurrentItem ==
    /\ http.route = "current"
    /\ http.item # Null
    /\ http.status = 200
    /\ http.position > 0

\* The transcoder of the last stream request has failed
TranscoderFailed == Dispatched /\ TranscodeOrCopy /\ http.proc = "failed"

\* The file of a Passthrough response is missing, or could not be read when the
\* read stream tried
FileFailed ==
    /\ Dispatched
    /\ Passthrough
    /\ \/ ~http.file.exists
       \/ ~http.file.readable /\ http.proc = "failed"

\* The part of C16 about the transcoder, step by step: an 'error' of the transcoder
\* turns the response into a 500 exactly when no header had been sent, and leaves
\* the status alone and logs otherwise.
TranscoderSignalling ==
    [][http.body = "ffmpeg" /\ http.proc = "running" /\ http'.proc = "failed"
         => /\ http'.status = 500 <=> ~http.headersSent
            /\ http.headersSent => http'.status = http.status /\ http'.logged]_vars

\* C16: when the transcoder fails the client gets 500 if and only if the headers had
\* not been sent, and a failure after that is only logged; a missing or unreadable
\* file in Passthrough is answered 500.
C16_FailureSignalling ==
    /\ TranscoderFailed => /\ http.status = 500 <=> ~http.logged
                           /\ http.logged => http.status = 200
    /\ FileFailed => http.status = 500

\* An unreadable file in Passthrough: the head was written before the read stream
\* failed, the failure is only logged
C16_Witness ==
    /\ FileFailed
    /\ http.file.exists
    /\ http.status \in {200, 206}
    /\ http.logged

\* A transcoder failure before any output is answered 500
C16_WitnessTranscoder ==
    /\ TranscoderFailed
    /\ http.status = 500
    /\ ~http.logged

\* A missing file in Passthrough is answered 500
C16_WitnessMissing ==
    /\ FileFailed
    /\ ~http.file.exists
    /\ http.status = 500

Names(ss) == {ss[i].name : i \in 1..Len(ss)}

\* This step is a rescan whose callback resolved
RescanStep == used'.reloads > used.reloads /\ reply'.op \in {"rescan", "rescanFailed"}

\* C18: after a rescan whose callback resolved, every show of the new list has a
\* cursor, every cursor there was keeps its value, and the shows that had none
\* are at 0.
C18_Reconcile ==
    [][RescanStep
         => /\ Names(shows') \subseteq DOMAIN showIndices'
            /\ \A n \in DOMAIN showIndices :
                 n \in DOMAIN showIndices' /\ showIndices'[n] = showIndices[n]
            /\ \A n \in (DOMAIN showIndices') \ (DOMAIN showIndices) :
                 n \in Names(shows') /\ showIndices'[n] = 0]_vars

\* After a rescan from X, Y to Y, Z: Y keeps its advanced cursor, Z starts at 0 and
\* the cursor of X is still there
C18_Witness ==
    /\ reply.op = "rescan"
    /\ Names(shows) = {"Y", "Z"}
    /\ DOMAIN showIndices = {"X", "Y", "Z"}
    /\ showIndices["X"] > 0
    /\ showIndices["Y"] > 0
    /\ showIndices["Z"] = 0

\* This step is a call of reloadShows
ReloadStep == used'.reloads > used.reloads /\ reply'.op = "reloadShows"

\* C19 as stated: reloadShows replaces the show list, keeps the cursor of every show
\* that still exists by name and starts only the new shows at 0.
C19_AsStated ==
    [][ReloadStep
         => /\ shows' \in {FilterShows(c) : c \in Catalogs}
            /\ \A n \in Names(shows') :
                 /\ n \in DOMAIN showIndices'
                 /\ showIndices'[n] = IF n \in DOMAIN showIndices THEN showIndices[n]
                                      ELSE 0]_vars

\* C19 (amended): reloadShows replaces the show list by the given shows that have
\* episodes and restarts the rotation: the cursors are exactly those of the new
\* list's shows, every one at 0 whether or not the show existed before, and
\* currentShowIndex is 0; the window is left as it is.
C19_ReloadResets ==
    [][ReloadStep
         => /\ shows' \in {FilterShows(c) : c \in Catalogs}
            /\ DOMAIN showIndices' = Names(shows')
            /\ \A n \in Names(shows') : showIndices'[n] = 0
            /\ currentShowIndex' = 0
            /\ playlist' = playlist]_vars

\* After reloadShows with a list that still has X and Y, whose cursors had advanced
\* while the first window was built, both are back at 0
C19_Witness ==
    /\ reply.op = "reloadShows"
    /\ Names(shows) = {"X", "Y"}
    /\ boot.mode = "fresh"
    /\ Names(boot.shows) = {"X", "Y"}
    /\ playlist # <<>>
    /\ showIndices["X"] = 0
    /\ showIndices["Y"] = 0
    /\ currentShowIndex = 0

\* This step is a rescan whose scan failed
FailedRescanStep == used'.reloads > used.reloads /\ reply'.op = "rescanFailed"

\* C20: a failed rescan leaves the show list, the cursors, currentShowIndex and the
\* window as they were.
C20_FailedRescan ==
    [][FailedRescanStep
         => /\ shows' = shows
            /\ showIndices' = showIndices
            /\ currentShowIndex' = currentShowIndex
            /\ playlist' = playlist]_vars

\* After a failed rescan the show list is empty although the manager was built from
\* a catalog with shows; the cursors and the window are the old ones
C20_Witness ==
    /\ reply.op = "rescanFailed"
    /\ boot.shows # <<>>
    /\ shows = <<>>
    /\ DOMAIN showIndices = Names(boot.shows)
    /\ playlist # <<>>

\* The manager a construction without a state file sets up from catalog cat at
\* instant t, before and after its first saveState()
FreshWindow(cat, t) ==
    GenerateInitialPlaylist([shows |-> FilterShows(cat), playlist |-> <<>>,
                             showIndices |-> InitializeIndices(EmptyIdx, FilterShows(cat)),
                             currentShowIndex |-> 0, picks |-> <<>>], t)

FreshSaved(g, t) == SaveState(g.m, FileAbsent, t, t)

SameAsFresh(g, s) ==
    /\ ~g.threw /\ ~g.hung /\ ~s.threw /\ ~s.hung
    /\ boot.window = SubSeq(g.m.playlist, 1, Min(MaxShown, Len(g.m.playlist)))
    /\ shows = s.m.shows
    /\ playlist = s.m.playlist
    /\ showIndices = s.m.showIndices
    /\ currentShowIndex = s.m.currentShowIndex
    /\ stateFile = s.file

\* The state file found at start is missing, cannot be read or parsed, or holds no
\* currentEpisode
NoPriorState == boot.file \in {FileAbsent, FileCorrupt, FileOtherJson}

\* C21: construction with a missing, unreadable or malformed state file does not
\* throw and sets up what a construction without state file sets up at that instant:
\* every cursor 0 and currentShowIndex 0 before the window is built, the anchor at
\* the construction time, and the same window.
C21_NoPriorState ==
    reply.op = "construct" /\ NoPriorState
    => /\ phase = "running"
       /\ ~reply.threw
       /\ boot.mode = "fresh"
       /\ DOMAIN boot.showIndices = Names(boot.shows)
       /\ \A n \in DOMAIN boot.showIndices : boot.showIndices[n] = 0
       /\ boot.currentShowIndex = 0
       /\ playlistStartTime = boot.at
       /\ playlist # <<>> /\ playlist[1].startTime = boot.at
       /\ SameAsFresh(FreshWindow(disk, boot.at),
                      FreshSaved(FreshWindow(disk, boot.at), boot.at))

\* Constructed from a state file that does not parse
C21_Witness ==
    /\ reply.op = "construct"
    /\ boot.file = FileCorrupt
    /\ Names(shows) = {"X", "Y"}
    /\ Len(playlist) >= 3
    /\ playlist[1].startTime = now

\* The last operation asked the manager what is on air
Asked == reply.op \in {"construct", "saveState", "getCurrentItem", "getPosition"}

\* The window had run out when the last operation read the clock
RunOut == playlist = <<>> \/ Last(playlist).endTime <= reply.at

\* C22: while the show list is empty no operation throws, and once the window has
\* run out (or at construction, when there is none) getCurrentItem() returns null,
\* getPosition() returns 0 and saveState() writes currentEpisode = null.
C22_EmptyCatalog ==
    Asked /\ shows = <<>>
    => /\ ~reply.threw
       /\ phase = "running"
       /\ RunOut => /\ reply.item = Null
                    /\ reply.position = 0
                    /\ reply.op \in {"construct", "saveState"}
                         => stateFile = FileNullEpisode

\* The catalog became empty by a rescan, the window built before has run out and the
\* save timer has written currentEpisode = null
C22_Witness ==
    /\ reply.op = "saveState"
    /\ shows = <<>>
    /\ boot.shows # <<>>
    /\ boot.window # <<>>
    /\ RunOut
    /\ reply.item = Null
    /\ stateFile = FileNullEpisode

\* Constructed from an empty catalog and asked for the position
C22_WitnessConstructedEmpty ==
    /\ reply.op = "getPosition"
    /\ boot.shows = <<>>
    /\ shows = <<>>
    /\ playlist = <<>>
    /\ reply.item = Null
    /\ reply.position = 0

\* This step changes the show list, the cursors, the rotation index or the window
Mutation == <<shows, showIndices, currentShowIndex, playlist>>'
              # <<shows, showIndices, currentShowIndex, playlist>>

\* The last operation changed the schedule and did not write the state file: a
\* request that extended the window, or a rescan
Unsaved ==
    /\ phase = "running"
    /\ \/ reply.op \in {"getCurrentItem", "getPosition"} /\ reply.extended
       \/ reply.op \in {"rescan", "rescanFailed"}

\* C23 as stated: after a mutation of the schedule the state file is written before
\* the next operation of the scheduler, so the operation that follows an unsaved
\* mutation is the write.
C23_AsStated ==
    [][Unsaved /\ reply' # reply => reply'.op = "saveState"]_vars

\* C23 (amended): the state file is written by the constructor and by every firing
\* of the 10 s save timer, each of which writes the item its own getCurrentItem()
\* returned and leaves the next write due 10 s later; a mutation made by any other
\* operation (a request that extends or trims, a rescan) leaves the file as it is,
\* with the next write due within 10 s.
C23_WrittenByTimer ==
    [][Mutation /\ phase' = "running"
         => IF reply'.op \in {"construct", "saveState"}
            THEN /\ stateFile' = StateOf(reply'.item)
                 /\ saveInterval' = reply'.at + SAVE_INTERVAL_MS
            ELSE /\ stateFile' = stateFile
                 /\ saveInterval' = saveInterval
                 /\ now' < saveInterval'
                 /\ saveInterval' <= now' + SAVE_INTERVAL_MS]_vars

\* A request has extended the window; the file is the one written by the last firing
\* of the timer
C23_Witness ==
    /\ reply.op \in {"getCurrentItem", "getPosition"}
    /\ reply.extended
    /\ phase = "running"
    /\ now < saveInterval

Schedule == <<shows, showIndices, currentShowIndex, playlist>>

\* The part of C24 about the call itself: destroy() clears both timers and, unless its
\* getCurrentItem() throws, writes the state once from the item that call returned;
\* afterwards no timer fires and nothing writes the file.
DestroyStops ==
    [][/\ phase = "running" /\ phase' = "destroyed"
            => /\ saveInterval' = NoTimer
               /\ ~rescanInterval'
               /\ reply'.op = "destroy"
               /\ ~reply'.threw => stateFile' = StateOf(reply'.item)
       /\ phase = "destroyed"
            => /\ stateFile' = stateFile
               /\ saveInterval' = NoTimer
               /\ ~rescanInterval'
               /\ Len(scanning') <= Len(scanning)]_vars

\* C24: destroy() cancels the save timer and the rescan timer and writes the state
\* once; after it has returned there is no further state write and no further change
\* of the show list, the cursors or the window, also not by a rescan that was in
\* flight when destroy() was called.
C24_Shutdown ==
    [][/\ phase = "running" /\ phase' = "destroyed"
            => /\ saveInterval' = NoTimer
               /\ ~rescanInterval'
               /\ stateFile' = StateOf(reply'.item)
       /\ phase = "destroyed"
            => /\ stateFile' = stateFile
               /\ Schedule' = Schedule]_vars

\* A rescan that was in flight when destroy() was called has replaced the show list
\* of the destroyed manager
C24_Witness ==
    /\ phase = "destroyed"
    /\ reply.op \in {"rescan", "rescanFailed"}
    /\ scanning = <<>>
    /\ shows # boot.shows
    /\ saveInterval = NoTimer
    /\ ~rescanInterval

C25_WitnessReload ==
    /\ reply.op = "reloadShows"
    /\ Names(shows) = {"X"}
    /\ Names(boot.shows) # {"X"}

\* The episode ep is listed by a show of ss
InCatalog(ep, ss) == \E s \in 1..Len(ss) : \E i \in 1..Len(ss[s].episodes) : ss[s].episodes[i] = ep

\* The items of the window after the step that were not in it before
Appended(before, after) ==
    {after[i] : i \in {k \in 1..Len(after) : \A j \in 1..Len(before) : before[j] # after[k]}}

C26_WitnessReload ==
    /\ reply.op = "reloadShows"
    /\ Names(shows) = {"Y", "Z"}
    /\ \E i \in 1..Len(playlist) : playlist[i].episode.showName = "X"

\* C27: with a non-empty show list, after every getCurrentItem() that returned an
\* item at instant now the last item of the window ends at least 30 minutes after now.
C27_Lookahead ==
    /\ reply.op \in Queries
    /\ shows # <<>>
    /\ ~reply.threw
    /\ phase = "running"
    /\ reply.item # Null
    => Last(playlist).endTime >= reply.at + EXTEND_THRESHOLD_MINUTES * 60 * 1000

\* A restart 4 h 50 min after the persisted start: the one extension of the retry
\* reaches 10 minutes past now, the item on air is returned and is the window's last
C27_Witness ==
    /\ reply.op = "construct"
    /\ boot.file = Saved("X", 1, 2, "", BootTime - 17400000)
    /\ shows # <<>>
    /\ reply.extended
    /\ reply.item # Null
    /\ reply.item = Last(playlist)
    /\ Last(playlist).endTime = reply.at + 600000

\* The end of the two hours a build anchored at A looks ahead
Horizon(A) == A + (EXTEND_LOOKAHEAD_HOURS * 60 * 60 * 1000)

\* The items start at A, each at the end of the one before, none starts after the
\* horizon, and together they reach the horizon
CoversFrom(items, A) ==
    /\ items # <<>>
    /\ items[1].startTime = A
    /\ \A i \in 2..Len(items) : items[i].startTime = items[i - 1].endTime
    /\ \A i \in 1..Len(items) : items[i].startTime <= Horizon(A)
    /\ Last(items).endTime >= Horizon(A)

\* The build b of manager m anchored at A ran to its end and what it appended covers
\* two hours from A
BuiltCovers(m, A, b) ==
    /\ ~b.threw
    /\ ~b.hung
    /\ Len(b.m.playlist) > Len(m.playlist)
    /\ SubSeq(b.m.playlist, 1, Len(m.playlist)) = m.playlist
    /\ CoversFrom(SubSeq(b.m.playlist, Len(m.playlist) + 1, Len(b.m.playlist)), A)

BuildCovers(m, A) == BuiltCovers(m, A, BuildLoop(m, A, Horizon(A)))

\* C28: with a non-empty show list, the build loop anchored at A (the start of the
\* initial window, or where the next extension of the running manager starts)
\* appends contiguous items from A, none starting after A + 2h, that reach A + 2h.
C28_BuildCoverage ==
    /\ boot.mode # "none" /\ boot.shows # <<>>
         => BuildCovers([shows |-> boot.shows, playlist |-> <<>>,
                         showIndices |-> boot.showIndices,
                         currentShowIndex |-> boot.currentShowIndex, picks |-> <<>>],
                        playlistStartTime)
    /\ phase = "running" /\ shows # <<>> => BuildCovers(M, ExtendFrom(M, now))

\* The same for the managers whose rotation index is inside the show list
C28_BuildCoverageInRange ==
    /\ boot.mode # "none" /\ boot.shows # <<>>
         => BuildCovers([shows |-> boot.shows, playlist |-> <<>>,
                         showIndices |-> boot.showIndices,
                         currentShowIndex |-> boot.currentShowIndex, picks |-> <<>>],
                        playlistStartTime)
    /\ phase = "running" /\ shows # <<>> /\ currentShowIndex < Len(shows)
         => BuildCovers(M, ExtendFrom(M, now))

\* The stricter reading of the stop: the build goes on while the next start does not
\* exceed A + 2h, so that its last item ends after A + 2h
C28_StopsPastHorizon ==
    phase = "running" /\ shows # <<>> /\ currentShowIndex < Len(shows)
    => Last(BuildLoop(M, ExtendFrom(M, now), Horizon(ExtendFrom(M, now))).m.playlist).endTime
         > Horizon(ExtendFrom(M, now))

\* After the rescan from X, Y to Y with Y in turn, the extension asked for by a
\* request threw at its first selection and appended nothing
C28_Witness ==
    /\ reply.op \in {"getCurrentItem", "getPosition"}
    /\ reply.extended
    /\ reply.threw
    /\ shows # <<>>
    /\ currentShowIndex >= Len(shows)
    /\ playlist # <<>>
    /\ Last(playlist).endTime = reply.anchor

\* The shows a rescan brings back: not in the list before it, in the list after it,
\* and known to the manager from an earlier list
Reappearing == (Names(shows') \ Names(shows)) \cap DOMAIN showIndices

\* C29: a show that an earlier rescan removed from the list and that this rescan
\* brings back has cursor 0 after it.
C29_ReappearsAtZero ==
    [][RescanStep => \A n \in Reappearing : showIndices'[n] = 0]_vars

\* X, Y was rescanned to Y, Z and then to X, Y again: X, last selected at S1E1, is
\* back with cursor 1
C29_Witness ==
    /\ reply.op = "rescan"
    /\ used.reloads = 2
    /\ Names(shows) = {"X", "Y"}
    /\ "Z" \in DOMAIN showIndices
    /\ showIndices["X"] = 1

\* C30: whenever the show list is non-empty the rotation index is inside it, no
\* operation has thrown and no timer callback has brought the process down.
C30_IndexValid ==
    /\ shows # <<>> => currentShowIndex < Len(shows)
    /\ ~reply.threw
    /\ phase # "crashed"

\* After the rescan from X, Y to Y with the index at 1, the save timer's
\* getCurrentItem() extended the window, getNextEpisode threw and the process is down
C30_Witness ==
    /\ phase = "crashed"
    /\ reply.op = "saveState"
    /\ reply.threw
    /\ Names(shows) = {"Y"}
    /\ currentShowIndex = 1

\* The index is past the list right after the rescan, before anything throws
C30_WitnessRescan ==
    /\ reply.op = "rescan"
    /\ phase = "running"
    /\ shows # <<>>
    /\ currentShowIndex >= Len(shows)

\* C31: no build of the window is still running after LoopFuel passes of its loop:
\* generateInitialPlaylist and extendPlaylist return for every non-empty catalog.
C31_BuildTerminates == phase # "hung"

\* The constructor's build for the catalog whose only episode lasts 0 seconds: after
\* more than LoopFuel items the window has not moved from its anchor
C31_Witness ==
    /\ phase = "hung"
    /\ reply.op = "construct"
    /\ shows = CatW
    /\ Len(playlist) > LoopFuel
    /\ \A i \in 1..Len(playlist) : playlist[i].startTime = playlistStartTime
                                  /\ playlist[i].endTime = playlistStartTime

\* A catalog with one sub-second file among longer ones is built and extended
C31_WitnessMixed ==
    /\ phase = "running"
    /\ JustExtended
    /\ \E i \in 1..Len(playlist) : playlist[i].episode.duration = 0

\* `kept` is `full` without its first Len(full) - Len(kept) items, each of which ended
\* at or before t - 30 min; no item that ends after `asked` is among them
TrimmedPrefix(full, kept, t, asked) ==
    /\ Len(kept) <= Len(full)
    /\ kept = SubSeq(full, Len(full) - Len(kept) + 1, Len(full))
    /\ \A i \in 1..(Len(full) - Len(kept)) :
         /\ full[i].endTime <= t - (HISTORY_KEEP_MINUTES * 60 * 1000)
         /\ full[i].endTime <= asked

\* This step is a timer firing or a request whose getCurrentItem() extended the window
ExtensionStep ==
    /\ phase = "running"
    /\ phase' = "running"
    /\ reply' # reply
    /\ reply'.op \in {"saveState", "getCurrentItem", "getPosition"}
    /\ reply'.extended
    /\ ~reply'.threw

\* C32: the items an extension at instant now removes are a prefix of the window
\* (old items followed by the appended ones) and all ended at or before
\* now - 30 min; every item that ends after now, the one on air included, stays.
C32_TrimKeepsOnAir ==
    [][ExtensionStep
         => /\ TrimmedPrefix(BuildLoop(M, reply'.anchor, Horizon(reply'.anchor)).m.playlist,
                             playlist', reply'.extAt, reply'.at)
            /\ reply'.item # Null
                 => \E i \in 1..Len(playlist') : playlist'[i] = reply'.item]_vars

\* An extension has removed the first items of the window and kept the one on air
C32_Witness ==
    /\ JustExtended
    /\ reply.op \in {"saveState", "getCurrentItem", "getPosition"}
    /\ playlist[1].startTime > playlistStartTime
    /\ reply.item # Null
    /\ \E i \in 1..Len(playlist) : playlist[i] = reply.item
    /\ playlist[1].endTime > reply.extAt - (HISTORY_KEEP_MINUTES * 60 * 1000)

\* This step is a getCurrentItem() at the clock value of the answered call before it
AskedAgain ==
    /\ reply.op \in Queries
    /\ ~reply.threw
    /\ phase = "running"
    /\ reply'.op = "getCurrentItem"
    /\ reply'.at = reply.at
    /\ reply.extAt = reply.at
    /\ shows' = shows

\* C33: of two consecutive getCurrentItem() calls at the same clock value the second
\* returns what the first returned and leaves the window and the cursors as they were.
C33_Idempotent ==
    [][AskedAgain
         => /\ reply'.item = reply.item
            /\ ~reply'.threw
            /\ playlist' = playlist
            /\ showIndices' = showIndices
            /\ currentShowIndex' = currentShowIndex]_vars

\* Restart 4 h 50 min after the persisted start: the constructor's getCurrentItem()
\* returned the item on air, and a request at the same instant extended the window
C33_Witness ==
    /\ reply.op = "getCurrentItem"
    /\ reply.at = boot.at
    /\ boot.file = Saved("X", 1, 2, "", BootTime - 17400000)
    /\ reply.extended
    /\ reply.item # Null
    /\ Last(playlist).endTime > reply.at + 600000

\* Restart 6 h after the persisted start: the constructor's call returned null and
\* the request at the same instant returns an item of a window laid out from now
C33_WitnessNull ==
    /\ reply.op = "getCurrentItem"
    /\ reply.at = boot.at
    /\ boot.file = Saved("X", 1, 2, "", BootTime - 21600000)
    /\ stateFile = FileNullEpisode
    /\ reply.item # Null
    /\ reply.item.startTime = reply.at

\* C34: a /current response with an item carries the offset inside that item at an
\* instant t of the handler's run at which the item is on air:
\* startTime <= t < endTime and position = floor((t - startTime) / 1000), hence
\* 0 <= position < duration.
C34_Snapshot ==
    /\ http.route = "current"
    /\ http.status = 200
    /\ http.item # Null
    => /\ 0 <= http.position
       /\ http.position < http.item.episode.duration
       /\ \E t \in {http.timestamp - d : d \in ClockSkews} :
            /\ http.item.startTime <= t
            /\ t < http.item.endTime
            /\ http.position = FloorSeconds(t - http.item.startTime)

\* The clock passed the end of X S1E2 between the handler's getCurrentItem() and its
\* getPosition(): the response names X S1E2 with the position inside the next item
C34_Witness ==
    /\ http.route = "current"
    /\ http.status = 200
    /\ http.item # Null
    /\ http.item.episode = Ep("X", 1, 2, "", 2700)
    /\ http.item.endTime = http.timestamp
    /\ http.position = 0
    /\ reply.item # Null
    /\ reply.item.episode.showName = "Y"
    /\ reply.item.startTime = http.timestamp

\* The same request answered within one clock value: 2699 s into X S1E2
C34_WitnessSameInstant ==
    /\ http.route = "current"
    /\ http.status = 200
    /\ http.item # Null
    /\ http.item.endTime = http.timestamp + 1
    /\ http.position = 2699

\* A fresh start whose catalog has not been replaced and has only episodes of
\* positive duration
FreshAndPositive ==
    /\ phase = "running"
    /\ boot.mode = "fresh"
    /\ used.reloads = 0
    /\ shows # <<>>
    /\ \A d \in Durations : d > 0

\* C35: after a fresh construction with a non-empty catalog of positive-duration
\* episodes, every firing of the save timer finds an item on air, and at every
\* instant the window holds the item on air and its last item ends after now.
C35_KeepsAiring ==
    FreshAndPositive
    => /\ reply.op \in {"construct", "saveState"} => reply.item # Null /\ ~reply.threw
       /\ Find(playlist, now) # Null
       /\ Last(playlist).endTime > now

\* More than four hours of save timer firings, the window extended and trimmed
C35_Witness ==
    /\ FreshAndPositive
    /\ reply.op = "saveState"
    /\ reply.extended
    /\ now >= BootTime + (2 * EXTEND_LOOKAHEAD_HOURS * 60 * 60 * 1000)
    /\ playlist[1].startTime > playlistStartTime

\* C36: when the state file held a current episode before construction, it holds
\* one after the constructor, its immediate saveState() included, has returned.
C36_PositionSurvives ==
    /\ reply.op = "construct"
    /\ phase = "running"
    /\ boot.saved # Null
    => stateFile.currentEpisode # Null

\* Restart 5 h after the persisted start of X S1E2, which is still in the catalog: the
\* constructor has replaced the persisted position by currentEpisode: null
C36_Witness ==
    /\ reply.op = "construct"
    /\ phase = "running"
    /\ boot.file = Saved("X", 1, 2, "", BootTime - 18000000)
    /\ boot.mode = "hit"
    /\ stateFile = FileNullEpisode
    /\ reply.item = Null

\* Restart 90 s after the persisted start: the position is written back as it was
C36_WitnessKept ==
    /\ reply.op = "construct"
    /\ boot.file = Saved("X", 1, 2, "", BootTime - 90000)
    /\ boot.mode = "hit"
    /\ stateFile = boot.file

OverlappedStep == RescanStep /\ Len(scanning) = 2 /\ Len(scanning') = 1

\* C38: of two rescans in flight (scanning holds them in start order) the one still
\* in flight when the other completes is the later-started one, so that the list in
\* effect after both is the later-started one's result; the swap of the list and the
\* added cursors take effect in one step.
C38_StartOrder ==
    [][/\ OverlappedStep
           => \/ scanning' = <<scanning[2]>>
              \/ FilterShows(scanning[1].shows) = FilterShows(scanning[2].shows)
       /\ RescanStep => Names(shows') \subseteq DOMAIN showIndices']_vars

\* Two rescans overlapped and the later-started one, which scanned X alone, has
\* completed; the first-started one, which scanned Y, Z, is still in flight and will
\* replace the list when it resolves
C38_Witness ==
    /\ reply.op = "rescan"
    /\ phase = "running"
    /\ used.reloads = 1
    /\ Len(scanning) = 1
    /\ scanning[1].started = 0
    /\ scanning[1].shows = CatYZ
    /\ Names(shows) = {"X"}

\* Both have completed: Y, Z, the result of the first-started rescan, is in effect
C38_WitnessBoth ==
    /\ reply.op = "rescan"
    /\ used.reloads = 2
    /\ scanning = <<>>
    /\ Names(shows) = {"Y", "Z"}
    /\ DOMAIN showIndices = {"X", "Y", "Z"}

\* The item on air is not the one the element holds
Behind(pl, item) == item # Null /\ pl.playing # item

\* C39: whenever the item on air is not the one the player holds, an answered sync
\* gives the element the stream again, also when the new item is the same file as
\* the previous one
C39_FollowsChannel ==
    [][(player'.syncs > player.syncs /\ Behind(player, http'.item)) => player'.fetching]_vars

\* The only episode of the catalog replays: the server has a new item on air, the
\* sync was answered with it, and the element still holds the item that ended
C39_Witness ==
    /\ Len(shows) = 1
    /\ player.syncs >= 2
    /\ http.route = "current"
    /\ http.status = 200
    /\ player.playing # Null
    /\ Behind(player, http.item)
    /\ player.playing.episode.path = http.item.episode.path
    /\ player.playing.endTime <= http.item.startTime
    /\ player.ended
    /\ ~player.fetching
    /\ ~player.isLoadingNewEpisode

\* Between two different files the sync loads the new stream
C39_WitnessNewFile ==
    /\ Len(shows) = 2
    /\ player.syncs >= 2
    /\ player.playing # Null
    /\ player.playing.episode.showName = "Y"
    /\ player.playing.startTime > BootTime
    /\ ~player.isLoadingNewEpisode

====
